---- MODULE Spec2Model ----
(***************************************************************************)
(* Preemptive RANSAC camera relocaliser of grove (PreemptiveRansac_CUDA.cu) *)
(* as a state machine: the host methods of PreemptiveRansac_CUDA, the CUDA  *)
(* kernels they dispatch (one step per shared-memory operation of a thread),*)
(* and the per-frame driver that calls them; with it the prediction merger  *)
(* of ScoreForestRelocaliser_CPU.cpp, which fills the predictions image.    *)
(*                                                                          *)
(* Geometry is one-dimensional and integral: a keypoint's eye-space         *)
(* position and a mode's mean are integers, a pose is a translation kept    *)
(* scaled by 3 (the sum of three mode means minus the sum of three          *)
(* keypoint positions), an energy is a rational num/den.                    *)
(*                                                                          *)
(* Beside it, two objects the relocaliser does not touch: the online        *)
(* decision tree of rafl (DecisionTree.h: add_examples and train, one step  *)
(* per loop turn) and the client of the remote mapping server               *)
(* (MappingClient.cpp: the caller's functions and the message sender        *)
(* thread, one step per read or write of the stream), and the depth         *)
(* renderer of spaint (DepthCalculator_CUDA.cu: one step per kernel thread).*)
(***************************************************************************)
EXTENDS Integers, Sequences, FiniteSets, TLC

\* ---------------------------------------------------------------- bounds

\* W*H: the number of raster indices of the keypoint and prediction images.
NPix == 3
\* m_nbMaxPoseCandidates (M_max, 1024 by default): the candidate arena.
MaxNbPoseCandidates == 3
\* m_batchSizeRansac (B, 500 by default): sampling attempts per dispatch.
BatchSizeRansac == 2
\* Warps of a block of the energy kernel (4 with blockSize 128, warpSize 32).
WarpsPerBlock == 2
\* log2 of the warp size (5 on the device).
LogWarpSize == 1
\* Per-slot retry budget of candidate generation (1000 by default).
MaxCandidateGenerationIterations == 2
\* Frames relocalised by one relocaliser instance.
MaxFrames == 2
\* Period of the modelled random generator.
RngModulus == 64
\* rngSeed values tried beyond the default one.
MaxSeedOffset == 1
\* T: the trees of the forest.
NbTrees == 2
\* K_in: the modes a leaf carries at most.
MaxModesPerLeaf == 2
\* m_maxClusterCount (K, 10 by default): the modes of a merged prediction.
MaxClusterCount == 2
\* r_merge: the distance within which a mode is merged into an output mode.
MergeRadius == 1
\* Nodes a decision tree grows to.
MaxTreeNodes == 5
\* maxReservoirSize: the examples a node's reservoir holds at most.
MaxReservoirSize == 2
\* Largest seenExamplesThreshold a tree is constructed with.
MaxSeenExamplesThreshold == 3
\* Largest splitBudget train is called with.
MaxSplitBudget == 2
\* Examples added to a tree over its life, and by one call of add_examples.
MaxExamplesAdded == 3
MaxExamplesPerCall == 2
\* Calls the caller makes on a mapping client, and frames it pushes.
MaxClientCalls == 4
MaxFramesPushed == 2

\* ------------------------------------------------------ program constants

\* m_rngSeed as set by the constructor.
DefaultRngSeed == 42
\* Squared minimum distance between sampled modes (d_min^2).
MinSquaredDistanceBetweenSampledModes == 1
\* Largest admitted difference of scene and eye distances (tau_t).
TranslationErrorMaxForCorrectPose == 0
\* The energy given to a candidate whose refinement failed.
InflatedEnergy == 1000

\* ------------------------------------------------------------- helpers

Pixels == 0 .. (NPix - 1)
Slots == 0 .. (MaxNbPoseCandidates - 1)
Trees == 0 .. (NbTrees - 1)
\* As SampleThreads, the thread past the batch let through.
SampleThreads_Unguarded == 0 .. BatchSizeRansac
\* The threads of the sampling kernel that get past sampleIdx >= nbMaxSamples.
SampleThreads == 0 .. (BatchSizeRansac - 1)
RngStates == 0 .. (MaxNbPoseCandidates - 1)

Abs(x) == IF x < 0 THEN -x ELSE x

RECURSIVE Pow2(_)
Pow2(k) == IF k = 0 THEN 1 ELSE 2 * Pow2(k - 1)

RECURSIVE SumTo(_, _)
\* f[0] + ... + f[n-1]
SumTo(f, n) == IF n = 0 THEN 0 ELSE f[n - 1] + SumTo(f, n - 1)

\* The eye-space position x_cam of the keypoint at raster index i.
KeypointPos(i) == (i * (i + 1)) \div 2

\* A modal cluster: mean and sample count.
Mode(mu, n) == [mu |-> mu, n |-> n]

\* The predictions a pixel can carry: none, the mode of the true pose
\* (scene = eye + 1), or that mode followed by a lighter outlier mode.
PredictionChoices(i) ==
  { << >>,
    << Mode(KeypointPos(i) + 1, 2) >>,
    << Mode(KeypointPos(i) + 1, 2), Mode(KeypointPos(i) + 3, 1) >> }

\* ------------------------------------------------- random generators

\* CUDARNG::reset(seed, idx): the state of sequence idx of the seed.
RngReset(seed, idx) == (3 * seed + 11 * idx) % RngModulus

\* The generator's state after one draw.
RngNext(s) == (5 * s + 3) % RngModulus

\* generate_int_from_uniform(0, n - 1), read off the state after the draw.
RngInt(s, n) == (s \div 4) % n

\* ------------------------------------------------------------- state

VARIABLES
  phase,                    \* the frame's state: IDLE, PREDICT, GENERATE, SCORE, HALVE, REFINE, EMIT
  hostPc,                   \* the host's position inside the phase
  frame,                    \* the number of the frame being relocalised
  rounds,                   \* halving rounds run in this frame
  cancelFlag,               \* the cancellation flag
  result,                   \* what the frame emitted
  settings,                 \* the configuration
  scene,                    \* what the camera sees: the frames' keypoints and predictions
  keypointsImage,           \* raster index -> validity of the keypoint
  predictionsImage,         \* raster index -> the keypoint's modes
  leafPredictions,          \* raster index -> tree -> the modes of the leaf the keypoint fell in
  mergeThreads,             \* the iterations of the merger's parallel loop
  randomGenerators,         \* m_randomGenerators
  poseCandidates,           \* m_poseCandidates (the arena)
  poseCandidatesDataSize,   \* m_poseCandidates->dataSize
  nbPoseCandidates_device,  \* m_nbPoseCandidates_device
  genThreads,               \* the threads of the generation kernel
  inliersIndicesBlock,      \* m_inliersIndicesBlock (the arena)
  inliersDataSize,          \* m_inliersIndicesBlock->dataSize
  nbSampledInliers_device,  \* m_nbSampledInliers_device
  inliersMaskImage,         \* m_inliersMaskImage
  sampleThreads,            \* the threads of the sampling kernel
  energyBlocks,             \* the blocks of the energy kernel
  history,                  \* what the frame has done so far (for the properties)
  treeArgs,                 \* what the DecisionTree was constructed with
  m_nodes,                  \* DecisionTree::m_nodes
  m_splittabilityQueue,     \* DecisionTree::m_splittabilityQueue: node id -> key
  m_dirtyNodes,             \* DecisionTree::m_dirtyNodes
  m_seenExamplesThreshold,  \* DecisionTree::m_seenExamplesThreshold
  treeCall,                 \* the call of the tree in progress, with its locals
  m_interactionMutex,       \* MappingClient::m_interactionMutex: who holds it
  m_frameMessageQueue,      \* MappingClient::m_frameMessageQueue
  m_frameCompressor,        \* MappingClient::m_frameCompressor: set or not
  m_remoteImage,            \* MappingClient::m_remoteImage: set or not
  callerCall,               \* the call of the client in progress in the caller
  senderCall,               \* the message sender thread
  observerCall,             \* the call in progress in a second caller thread
  depthCall,                \* DepthCalculator_CUDA::render_depth and its kernel
  rngCall                   \* the generator states of any configuration and their use

driverVars == << phase, hostPc, frame, rounds, cancelFlag, result, settings, scene >>
imageVars == << keypointsImage, predictionsImage, leafPredictions, mergeThreads >>
candidateVars == << poseCandidates, poseCandidatesDataSize, nbPoseCandidates_device, genThreads >>
inlierVars == << inliersIndicesBlock, inliersDataSize, nbSampledInliers_device,
                 inliersMaskImage, sampleThreads >>
relocVars == << driverVars, imageVars, randomGenerators, candidateVars, inlierVars,
                energyBlocks, history >>
treeVars == << treeArgs, m_nodes, m_splittabilityQueue, m_dirtyNodes,
               m_seenExamplesThreshold, treeCall >>
\* The objects the relocaliser does not touch.
clientVars == << m_interactionMutex, m_frameMessageQueue, m_frameCompressor,
                 m_remoteImage, callerCall, senderCall, observerCall >>
otherVars == << treeVars, clientVars, depthCall, rngCall >>
vars == << relocVars, otherVars >>

\* ------------------------------------------------ candidate generation

\* What a PoseCandidate holds before anything is written to it.
UninitEnergy == [num |-> 0, den |-> 1]
EmptyCandidate == [slot |-> -1, corr |-> << >>, pose |-> 0, energy |-> UninitEnergy]

\* One correspondence (keypoint, sampled mode): steps 1 and 2 of the generator.
SampleCorrespondence(rng, kv, pr, useAllModes) ==
  LET s1 == RngNext(rng)
      pix == RngInt(s1, NPix)
  IN  IF ~kv[pix] \/ Len(pr[pix]) = 0
      THEN [ok |-> FALSE, pix |-> pix, mode |-> 0, rng |-> s1]
      ELSE IF useAllModes
           THEN LET s2 == RngNext(s1)
                IN  [ok |-> TRUE, pix |-> pix,
                     mode |-> 1 + RngInt(s2, Len(pr[pix])), rng |-> s2]
           ELSE [ok |-> TRUE, pix |-> pix, mode |-> 1, rng |-> s1]

Corr(c) == [pix |-> c.pix, mode |-> c.mode]

\* The third correspondence of a triple, c1 and c2 being usable.
SampleThird(c1, c2, c3) ==
  IF ~c3.ok THEN [ok |-> FALSE, corr |-> << Corr(c1), Corr(c2) >>, rng |-> c3.rng]
  ELSE [ok |-> TRUE, corr |-> << Corr(c1), Corr(c2), Corr(c3) >>, rng |-> c3.rng]

\* The second correspondence of a triple, c1 being usable.
SampleSecond(c1, c2, kv, pr, useAllModes) ==
  IF ~c2.ok THEN [ok |-> FALSE, corr |-> << Corr(c1) >>, rng |-> c2.rng]
  ELSE SampleThird(c1, c2, SampleCorrespondence(c2.rng, kv, pr, useAllModes))

\* The first correspondence of a triple.
SampleFirst(c1, kv, pr, useAllModes) ==
  IF ~c1.ok THEN [ok |-> FALSE, corr |-> << >>, rng |-> c1.rng]
  ELSE SampleSecond(c1, SampleCorrespondence(c1.rng, kv, pr, useAllModes), kv, pr, useAllModes)

\* Three correspondences, given up at the first unusable keypoint.
SampleTriple(rng, kv, pr, useAllModes) ==
  SampleFirst(SampleCorrespondence(rng, kv, pr, useAllModes), kv, pr, useAllModes)

\* The scene-space mean of a correspondence.
ModeMean(pr, c) == pr[c.pix][c.mode].mu

Pairs == { << 1, 2 >>, << 1, 3 >>, << 2, 3 >> }

\* Minimum separation of the three sampled modes.
MinDistanceOk(pr, corr) ==
  \A p \in Pairs :
    LET d == ModeMean(pr, corr[p[1]]) - ModeMean(pr, corr[p[2]])
    IN  d * d >= MinSquaredDistanceBetweenSampledModes

\* Rigid-transform consistency of the three correspondences.
RigidTransformOk(pr, corr) ==
  \A p \in Pairs :
    LET dScene == Abs(ModeMean(pr, corr[p[1]]) - ModeMean(pr, corr[p[2]]))
        dEye == Abs(KeypointPos(corr[p[1]].pix) - KeypointPos(corr[p[2]].pix))
    IN  Abs(dScene - dEye) <= TranslationErrorMaxForCorrectPose

\* Three usable correspondences that pass every enabled test.
TripleAccepted(kv, pr, cfg, corr) ==
  /\ Len(corr) = 3
  /\ \A k \in 1 .. 3 :
       /\ kv[corr[k].pix]
       /\ corr[k].mode \in 1 .. Len(pr[corr[k].pix])
  /\ cfg.checkMinDistance => MinDistanceOk(pr, corr)
  /\ cfg.checkRigidTransform => RigidTransformOk(pr, corr)

RECURSIVE preemptive_ransac_generate_candidate(_, _, _, _, _, _)
\* One attempt a of the retry loop, and the attempts after it when it fails.
GenerateAttempt(a, kv, pr, cfg, iter) ==
  IF a.ok /\ TripleAccepted(kv, pr, cfg, a.corr)
  THEN [valid |-> TRUE, corr |-> a.corr, rng |-> a.rng, iterations |-> iter + 1]
  ELSE preemptive_ransac_generate_candidate(a.rng, kv, pr, cfg, iter + 1, a.corr)

\* The retry loop of one slot: sample triples until one passes or the budget is spent.
preemptive_ransac_generate_candidate(rng, kv, pr, cfg, iter, last) ==
  IF iter >= MaxCandidateGenerationIterations
  THEN [valid |-> FALSE, corr |-> last, rng |-> rng, iterations |-> iter]
  ELSE CHOOSE r \in { GenerateAttempt(a, kv, pr, cfg, iter) :
                         a \in { SampleTriple(rng, kv, pr, cfg.useAllModes) } } : TRUE

\* Kabsch with unit weights on the three correspondences: the translation, times 3.
KabschPose(pr, corr) ==
  LET mu == [k \in 0 .. 2 |-> ModeMean(pr, corr[k + 1])]
      x == [k \in 0 .. 2 |-> KeypointPos(corr[k + 1].pix)]
  IN  SumTo(mu, 3) - SumTo(x, 3)

\* ---- ck_preemptive_ransac_generate_pose_candidates, one thread per slot

IdleGenThread == [pc |-> "idle", valid |-> FALSE, cand |-> EmptyCandidate, finalIdx |-> -1]

\* As ShouldStoreCandidate, without the test of valid.
ShouldStoreCandidate_Always(valid) == TRUE

\* if (valid): only a candidate that was generated is stored.
ShouldStoreCandidate(valid) == valid

\* As GrabCandidateIndex, the thread writing at its own index.
GrabCandidateIndex_Own(counter, candidateIdx) == candidateIdx

\* finalCandidateIdx = atomicAdd(nbPoseCandidates, 1): the counter's old value.
GrabCandidateIndex(counter, candidateIdx) == counter

\* As SlotGenerator, one generator shared by every slot.
SlotGenerator_Shared(candidateIdx) == 0

\* randomGenerators[candidateIdx]: the generator a slot draws from.
SlotGenerator(candidateIdx) == candidateIdx

\* What the thread holds once the generator returned r.
GenLocalResult(t, r) ==
  /\ randomGenerators' = [randomGenerators EXCEPT ![SlotGenerator(t)] = r.rng]
  /\ genThreads' = [genThreads EXCEPT ![t] =
       [pc |-> IF ShouldStoreCandidate(r.valid) THEN "generated" ELSE "done",
        valid |-> r.valid,
        cand |-> [slot |-> t, corr |-> r.corr, pose |-> 0, energy |-> UninitEnergy],
        finalIdx |-> -1]]

\* The thread generates its candidate in a local variable.
GenLocal(t) ==
  /\ hostPc = "gen_kernel"
  /\ genThreads[t].pc = "start"
  /\ \E r \in { preemptive_ransac_generate_candidate(
                   randomGenerators[SlotGenerator(t)], keypointsImage, predictionsImage, settings, 0, << >>) } :
       GenLocalResult(t, r)
  /\ UNCHANGED << driverVars, imageVars, poseCandidates, poseCandidatesDataSize,
                  nbPoseCandidates_device, inlierVars, energyBlocks, history,
                  otherVars >>

\* The thread grabs an index with the atomic add.
GenGrab(t) ==
  /\ hostPc = "gen_kernel"
  /\ genThreads[t].pc = "generated"
  /\ genThreads' = [genThreads EXCEPT ![t].pc = "grabbed",
                      ![t].finalIdx = GrabCandidateIndex(nbPoseCandidates_device, t)]
  /\ nbPoseCandidates_device' = nbPoseCandidates_device + 1
  /\ UNCHANGED << driverVars, imageVars, randomGenerators, poseCandidates,
                  poseCandidatesDataSize, inlierVars, energyBlocks, history,
                  otherVars >>

\* The thread stores its candidate at the index it grabbed.
GenStore(t) ==
  /\ hostPc = "gen_kernel"
  /\ genThreads[t].pc = "grabbed"
  /\ genThreads' = [genThreads EXCEPT ![t].pc = "done"]
  /\ poseCandidates' =
       IF genThreads[t].finalIdx \in Slots
       THEN [poseCandidates EXCEPT ![genThreads[t].finalIdx] = genThreads[t].cand]
       ELSE poseCandidates
  /\ history' = [history EXCEPT !.writers =
       [i \in Slots |-> IF i = genThreads[t].finalIdx THEN @[i] + 1 ELSE @[i]]]
  /\ UNCHANGED << driverVars, imageVars, randomGenerators, poseCandidatesDataSize,
                  nbPoseCandidates_device, inlierVars, energyBlocks,
                  otherVars >>

\* generate_pose_candidates, up to the kernel's launch: the device counter is reset.
GenerateLaunch ==
  /\ phase = "GENERATE"
  /\ hostPc = "start"
  /\ nbPoseCandidates_device' = 0
  /\ genThreads' = [t \in Slots |-> [IdleGenThread EXCEPT !.pc = "start"]]
  /\ hostPc' = "gen_kernel"
  /\ history' = [history EXCEPT !.writers = [i \in Slots |-> 0]]
  /\ UNCHANGED << phase, frame, rounds, cancelFlag, result, settings, scene, imageVars,
                  randomGenerators, poseCandidates, poseCandidatesDataSize,
                  inlierVars, energyBlocks,
                  otherVars >>

\* compute_candidate_poses_kabsch: the pose of each of the first n candidates.
compute_candidate_poses_kabsch(cands, n, pr) ==
  [i \in Slots |->
    IF i < n /\ Len(cands[i].corr) = 3
    THEN [cands[i] EXCEPT !.pose = KabschPose(pr, cands[i].corr)]
    ELSE cands[i]]

\* As PublishedCandidateCount, the whole arena taken as filled.
PublishedCandidateCount_Capacity(counter) == MaxNbPoseCandidates

\* m_poseCandidates->dataSize = m_nbPoseCandidates_device->GetElement(0, ...)
PublishedCandidateCount(counter) == counter

\* generate_pose_candidates, once the kernel is over: the count is read back
\* and the poses are computed on the host.
GenerateFinish ==
  /\ hostPc = "gen_kernel"
  /\ \A t \in Slots : genThreads[t].pc = "done"
  /\ poseCandidatesDataSize' = PublishedCandidateCount(nbPoseCandidates_device)
  /\ poseCandidates' =
       compute_candidate_poses_kabsch(poseCandidates,
         PublishedCandidateCount(nbPoseCandidates_device), predictionsImage)
  /\ hostPc' = "sample_first"
  /\ UNCHANGED << phase, frame, rounds, cancelFlag, result, settings, scene, imageVars,
                  randomGenerators, nbPoseCandidates_device, genThreads,
                  inlierVars, energyBlocks, history,
                  otherVars >>

\* ------------------------------------------------------ inlier sampling

RECURSIVE Log2(_)
\* floor(log2(n)) for n >= 1
Log2(n) == IF n <= 1 THEN 0 ELSE 1 + Log2(n \div 2)

\* maxRounds by default: log2(M_max) + 1.
DefaultMaxRounds == Log2(MaxNbPoseCandidates) + 1

\* I_max: one batch before the loop and one per round.
InlierCapacity == BatchSizeRansac * (DefaultMaxRounds + 1)
InlierSlots == 0 .. (InlierCapacity - 1)

\* The mask pointer of a launch that is given none.
NullMask == << >>

\* One draw of the sampler: a uniformly random raster index, accepted iff the
\* keypoint is valid, its prediction is not empty and, in masked mode, its mask
\* bit is 0; an accepted index has its bit set in the mask the call was given.
preemptive_ransac_sample_inlier(useMask, rng, kv, pr, mask) ==
  LET s1 == RngNext(rng)
      pix == RngInt(s1, NPix)
      usable == kv[pix] /\ Len(pr[pix]) > 0
      accept == usable /\ (useMask => mask[pix] = 0)
  IN  [idx |-> IF accept THEN pix ELSE -1,
       draw |-> pix,
       rng |-> s1,
       mask |-> IF accept /\ mask # NullMask THEN [mask EXCEPT ![pix] = 1] ELSE mask]

\* As SampleKernelUseMask, the un-masked kernel launched on both branches.
SampleKernelUseMask_Never(useMask) == FALSE

\* The template argument the host picks for the kernel: if (useMask) <true> else <false>.
SampleKernelUseMask(useMask) == useMask

\* The mask the host hands to the kernel: inlierMaskData, or nothing (NULL by default).
SampleKernelMask(useMask, mask) == IF useMask THEN mask ELSE NullMask

IdleSampleThread == [pc |-> "idle", idx |-> -1, draw |-> -1, outIdx |-> -1]

\* Whether the dispatch in flight is the driver's masked one.
MaskedCall == hostPc = "smp_kernel_round"
InSampleKernel == hostPc \in { "smp_kernel_first", "smp_kernel_round" }

\* As ShouldStoreInlier, the result of the sampling not looked at.
ShouldStoreInlier_Always(sampledLinearIdx) == TRUE

\* if (sampledLinearIdx >= 0): only a sampling that succeeded is stored.
ShouldStoreInlier(sampledLinearIdx) == sampledLinearIdx >= 0

\* ck_preemptive_ransac_sample_inliers: the thread samples a raster index.
SmpDraw(t) ==
  /\ InSampleKernel
  /\ sampleThreads[t].pc = "start"
  /\ LET r == preemptive_ransac_sample_inlier(
                SampleKernelUseMask(MaskedCall), randomGenerators[t], keypointsImage,
                predictionsImage, SampleKernelMask(MaskedCall, inliersMaskImage))
     IN  /\ randomGenerators' = [randomGenerators EXCEPT ![t] = r.rng]
         /\ inliersMaskImage' = IF r.mask = NullMask THEN inliersMaskImage ELSE r.mask
         /\ sampleThreads' = [sampleThreads EXCEPT ![t] =
              [pc |-> IF ShouldStoreInlier(r.idx) THEN "sampled" ELSE "done",
               idx |-> r.idx, draw |-> r.draw, outIdx |-> -1]]
         /\ history' =
              IF r.idx < 0 THEN history
              ELSE IF MaskedCall
                   THEN [history EXCEPT !.maskedAccepted = Append(@, r.idx)]
                   ELSE [history EXCEPT !.unmaskedAccepted = Append(@, r.idx)]
  /\ UNCHANGED << driverVars, imageVars, candidateVars, inliersIndicesBlock,
                  inliersDataSize, nbSampledInliers_device, energyBlocks,
                  otherVars >>

\* As GrabInlierIndex, every thread writing to the head of the list.
GrabInlierIndex_Head(inlierCount) == 0

\* const int outIdx = atomicAdd(inlierCount, 1): the count before the add.
GrabInlierIndex(inlierCount) == inlierCount

\* The thread grabs an output index with the atomic add.
SmpGrab(t) ==
  /\ InSampleKernel
  /\ sampleThreads[t].pc = "sampled"
  /\ sampleThreads' = [sampleThreads EXCEPT
                         ![t].pc = "grabbed",
                         ![t].outIdx = GrabInlierIndex(nbSampledInliers_device)]
  /\ nbSampledInliers_device' = nbSampledInliers_device + 1
  /\ UNCHANGED << driverVars, imageVars, randomGenerators, candidateVars,
                  inliersIndicesBlock, inliersDataSize, inliersMaskImage,
                  energyBlocks, history,
                  otherVars >>

\* The thread stores the raster index it sampled.
SmpStore(t) ==
  /\ InSampleKernel
  /\ sampleThreads[t].pc = "grabbed"
  /\ sampleThreads' = [sampleThreads EXCEPT ![t].pc = "done"]
  /\ inliersIndicesBlock' =
       IF sampleThreads[t].outIdx \in InlierSlots
       THEN [inliersIndicesBlock EXCEPT ![sampleThreads[t].outIdx] = sampleThreads[t].idx]
       ELSE inliersIndicesBlock
  /\ UNCHANGED << driverVars, imageVars, randomGenerators, candidateVars,
                  inliersDataSize, nbSampledInliers_device, inliersMaskImage,
                  energyBlocks, history,
                  otherVars >>

\* As ResetsInlierCounter, the device counter never reset.
ResetsInlierCounter_Never(dataSize) == FALSE

\* if (m_inliersIndicesBlock->dataSize == 0): the device counter is reset.
ResetsInlierCounter(dataSize) == dataSize = 0

\* sample_inlier_candidates(useMask), up to the kernel's launch: the device
\* counter is reset only if the host-side count is zero.
SampleLaunch(from, to) ==
  /\ hostPc = from
  /\ nbSampledInliers_device' =
       IF ResetsInlierCounter(inliersDataSize) THEN 0 ELSE nbSampledInliers_device
  /\ sampleThreads' = [t \in SampleThreads |-> [IdleSampleThread EXCEPT !.pc = "start"]]
  /\ hostPc' = to
  /\ UNCHANGED << phase, frame, rounds, cancelFlag, result, settings, scene, imageVars,
                  randomGenerators, candidateVars, inliersIndicesBlock, inliersDataSize,
                  inliersMaskImage, energyBlocks, history,
                  otherVars >>

\* sample_inlier_candidates, once the kernel is over: the count is read back.
SampleFinish(from, to) ==
  /\ hostPc = from
  /\ \A t \in SampleThreads : sampleThreads[t].pc = "done"
  /\ inliersDataSize' = nbSampledInliers_device
  /\ hostPc' = to
  /\ UNCHANGED << phase, frame, rounds, cancelFlag, result, settings, scene, imageVars,
                  randomGenerators, candidateVars, inliersIndicesBlock,
                  nbSampledInliers_device, inliersMaskImage, sampleThreads,
                  energyBlocks, history,
                  otherVars >>

\* The first call of a frame: sample_inlier_candidates(false).
SampleFirstLaunch == phase = "GENERATE" /\ SampleLaunch("sample_first", "smp_kernel_first")
SampleFirstFinish == SampleFinish("smp_kernel_first", "done")

\* The call of each round: sample_inlier_candidates(true).
SampleRoundLaunch == phase = "SCORE" /\ SampleLaunch("start", "smp_kernel_round")
SampleRoundFinish == SampleFinish("smp_kernel_round", "energy_reset")

\* --------------------------------------------------------------- energies

WarpSize == Pow2(LogWarpSize)
\* blockSize of the energy kernel.
ThreadsPerBlock == WarpsPerBlock * WarpSize
Warps == 0 .. (WarpsPerBlock - 1)
Lanes == 0 .. (WarpSize - 1)

Min(S) == CHOOSE m \in S : \A o \in S : m <= o

\* The total sample count N of a prediction.
TotalCount(pred) == SumTo([k \in 0 .. (Len(pred) - 1) |-> pred[k + 1].n], Len(pred))

\* The cost of one inlier under a pose: how far the keypoint, moved by the pose,
\* lies from the closest mode of its prediction, lighter modes counting less
\* (all lengths times 3, as the pose is).
InlierCost(pose, pix, pr) ==
  IF Len(pr[pix]) = 0 THEN 0
  ELSE Min({ Abs(3 * KeypointPos(pix) + pose - 3 * pr[pix][k].mu)
               + (TotalCount(pr[pix]) - pr[pix][k].n) : k \in 1 .. Len(pr[pix]) })

RECURSIVE preemptive_ransac_compute_candidate_energy(_, _, _, _, _, _)
\* The energy of the inliers i = first, first + step, first + 2 step, ... < nbInliers.
preemptive_ransac_compute_candidate_energy(pose, pr, inliers, nbInliers, first, step) ==
  IF first >= nbInliers THEN 0
  ELSE InlierCost(pose, inliers[first], pr)
         + preemptive_ransac_compute_candidate_energy(
             pose, pr, inliers, nbInliers, first + step, step)

RECURSIVE ShflDownReduce(_, _)
\* for (offset = warpSize / 2; offset > 0; offset /= 2) v += __shfl_down(v, offset):
\* every lane adds the value of the lane offset above it (its own past the warp's end).
ShflDownReduce(v, offset) ==
  IF offset = 0 THEN v
  ELSE ShflDownReduce(
         [l \in Lanes |-> v[l] + (IF l + offset \in Lanes THEN v[l + offset] ELSE v[l])],
         offset \div 2)

\* As IsWarpLeader, for the first thread of the block only.
IsWarpLeader_BlockLeader(tId) == tId = 0

\* (threadIdx.x & (warpSize - 1)) == 0
IsWarpLeader(tId) == tId % WarpSize = 0

\* What the threads of warp w of a candidate's block add to its energy.
WarpContribution(cand, w, pr, inliers, nbInliers) ==
  LET local == [l \in Lanes |->
                  preemptive_ransac_compute_candidate_energy(
                    cand.pose, pr, inliers, nbInliers, w * WarpSize + l, ThreadsPerBlock)]
      reduced == ShflDownReduce(local, WarpSize \div 2)
  IN  SumTo([l \in Lanes |-> IF IsWarpLeader(w * WarpSize + l) THEN reduced[l] ELSE 0],
            WarpSize)

IdleBlock == [added |-> {}, done |-> TRUE]

\* ck_preemptive_ransac_reset_candidate_energies: one block, a thread per candidate.
EnergyReset ==
  /\ phase = "SCORE"
  /\ hostPc = "energy_reset"
  /\ poseCandidates' = [i \in Slots |->
       IF i < poseCandidatesDataSize
       THEN [poseCandidates[i] EXCEPT !.energy = [num |-> 0, den |-> 1]]
       ELSE poseCandidates[i]]
  /\ energyBlocks' = [i \in Slots |->
       IF i < poseCandidatesDataSize THEN [added |-> {}, done |-> FALSE] ELSE IdleBlock]
  /\ hostPc' = "energy_kernel"
  /\ UNCHANGED << phase, frame, rounds, cancelFlag, result, settings, scene, imageVars,
                  randomGenerators, poseCandidatesDataSize, nbPoseCandidates_device,
                  genThreads, inlierVars, history,
                  otherVars >>

\* The blocks write to different candidates: they are run one after the other,
\* the warps of each in every order.
BlockRuns(c) ==
  /\ hostPc = "energy_kernel"
  /\ ~energyBlocks[c].done
  /\ \A b \in Slots : b < c => energyBlocks[b].done

\* ck_preemptive_ransac_compute_energies: warp w of candidate c's block adds its sum.
EnergyWarpAdd(c, w) ==
  /\ BlockRuns(c)
  /\ w \notin energyBlocks[c].added
  /\ poseCandidates' = [poseCandidates EXCEPT ![c].energy.num =
       @ + WarpContribution(poseCandidates[c], w, predictionsImage,
                            inliersIndicesBlock, inliersDataSize)]
  /\ energyBlocks' = [energyBlocks EXCEPT ![c].added = @ \cup { w }]
  /\ UNCHANGED << driverVars, imageVars, randomGenerators, poseCandidatesDataSize,
                  nbPoseCandidates_device, genThreads, inlierVars, history,
                  otherVars >>

\* As SyncThreadsPassed, with no barrier before the division.
SyncThreadsPassed_NoBarrier(block) == TRUE

\* __syncthreads(): every warp of the block has done its atomicAdd.
SyncThreadsPassed(block) == block.added = Warps

\* After __syncthreads(), thread 0 of the block divides by the number of inliers.
EnergyFinalise(c) ==
  /\ BlockRuns(c)
  /\ SyncThreadsPassed(energyBlocks[c])
  /\ poseCandidates' = [poseCandidates EXCEPT ![c].energy.den = inliersDataSize]
  /\ energyBlocks' = [energyBlocks EXCEPT ![c].done = TRUE]
  /\ UNCHANGED << driverVars, imageVars, randomGenerators, poseCandidatesDataSize,
                  nbPoseCandidates_device, genThreads, inlierVars, history,
                  otherVars >>

\* operator< of PoseCandidate: by energy; a quotient by zero compares with nothing.
EnergyLess(a, b) == a.num * b.den < b.num * a.den
CandidateLess(a, b) == EnergyLess(a.energy, b.energy)

\* As ThrustSort, the first candidate written over the others.
ThrustSort_Duplicating(cands, n) ==
  { [i \in Slots |-> IF i < n THEN cands[0] ELSE cands[i]] }

\* As ThrustSort, the candidates left as they were.
ThrustSort_Unsorted(cands, n) == { cands }

\* As ThrustSort, the greatest energy first.
ThrustSort_Descending(cands, n) ==
  LET idx == 0 .. (n - 1)
      perms == { f \in [idx -> idx] : \A i, j \in idx : i # j => f[i] # f[j] }
      sorted(f) == \A i, j \in idx : i < j => ~CandidateLess(cands[f[i]], cands[f[j]])
  IN  { [i \in Slots |-> IF i < n THEN cands[f[i]] ELSE cands[i]] :
          f \in { g \in perms : sorted(g) } }

\* The orders of the first n candidates that thrust::sort may leave: every
\* rearrangement in which no candidate is less than one before it.
ThrustSort(cands, n) ==
  LET idx == 0 .. (n - 1)
      perms == { f \in [idx -> idx] : \A i, j \in idx : i # j => f[i] # f[j] }
      sorted(f) == \A i, j \in idx : i < j => ~CandidateLess(cands[f[j]], cands[f[i]])
  IN  { [i \in Slots |-> IF i < n THEN cands[f[i]] ELSE cands[i]] :
          f \in { g \in perms : sorted(g) } }

\* compute_and_sort_energies, once the energy kernel is over: the sort.
SortCandidates ==
  /\ phase = "SCORE"
  /\ hostPc = "energy_kernel"
  /\ \A c \in Slots : energyBlocks[c].done
  /\ \E sorted \in ThrustSort(poseCandidates, poseCandidatesDataSize) :
       poseCandidates' = sorted
  /\ hostPc' = "done"
  /\ UNCHANGED << phase, frame, rounds, cancelFlag, result, settings, scene, imageVars,
                  randomGenerators, poseCandidatesDataSize, nbPoseCandidates_device,
                  genThreads, inlierVars, energyBlocks, history,
                  otherVars >>

\* ------------------------------------------------------------ refinement

\* The mode of pixel pix that explains the keypoint best under the pose.
AssignedMode(pose, pix, pr) ==
  CHOOSE k \in 1 .. Len(pr[pix]) :
    Abs(3 * KeypointPos(pix) + pose - 3 * pr[pix][k].mu) + (TotalCount(pr[pix]) - pr[pix][k].n)
      = InlierCost(pose, pix, pr)

\* The pose re-estimated on the inliers' assigned modes: the mean translation, times 3.
RefinedPose(pose, pr, inliers, nbInliers) ==
  LET shift == [i \in 0 .. (nbInliers - 1) |->
                  pr[inliers[i]][AssignedMode(pose, inliers[i], pr)].mu
                    - KeypointPos(inliers[i])]
  IN  (3 * SumTo(shift, nbInliers)) \div nbInliers

\* The refinement of one candidate: a failed one keeps its pose and gets the
\* inflated energy.
update_candidate_pose(cand, fails, pr, inliers, nbInliers) ==
  IF fails
  THEN [cand EXCEPT !.energy = [num |-> InflatedEnergy, den |-> 1]]
  ELSE [cand EXCEPT !.pose = RefinedPose(cand.pose, pr, inliers, nbInliers)]

\* update_candidate_poses: inliers and candidates are copied to the host, every
\* surviving candidate is refined there, and the candidates are copied back.
\* A refinement without inliers fails; any other may fail numerically.
UpdateCandidatePoses ==
  /\ phase = "REFINE"
  /\ hostPc = "start"
  /\ \E failed \in SUBSET { i \in Slots : i < poseCandidatesDataSize } :
       /\ inliersDataSize = 0 => failed = { i \in Slots : i < poseCandidatesDataSize }
       /\ poseCandidates' = [i \in Slots |->
            IF i < poseCandidatesDataSize
            THEN update_candidate_pose(poseCandidates[i], i \in failed, predictionsImage,
                                       inliersIndicesBlock, inliersDataSize)
            ELSE poseCandidates[i]]
       /\ history' = [history EXCEPT !.refineFailed =
            (@ \ { poseCandidates[i].slot : i \in { j \in Slots : j < poseCandidatesDataSize } })
              \cup { poseCandidates[i].slot : i \in failed }]
  /\ hostPc' = "done"
  /\ UNCHANGED << phase, frame, rounds, cancelFlag, result, settings, scene, imageVars,
                  randomGenerators, poseCandidatesDataSize, nbPoseCandidates_device,
                  genThreads, inlierVars, energyBlocks,
                  otherVars >>

\* ------------------------------------------------------ prediction merger

\* The modes of the T leaves of a keypoint, one leaf after the other.
RECURSIVE GatherLeafModes(_, _)
GatherLeafModes(leaves, t) ==
  IF t = 0 THEN << >> ELSE GatherLeafModes(leaves, t - 1) \o leaves[t - 1]

\* m put into a list sorted by n descending, behind the modes as heavy as it.
RECURSIVE InsertByCount(_, _)
InsertByCount(sorted, m) ==
  IF sorted = << >> THEN << m >>
  ELSE IF Head(sorted).n >= m.n THEN << Head(sorted) >> \o InsertByCount(Tail(sorted), m)
       ELSE << m >> \o sorted

\* Step 1: the candidate modes sorted by n descending.
RECURSIVE SortByCount(_)
SortByCount(modes) ==
  IF modes = << >> THEN << >>
  ELSE InsertByCount(SortByCount(SubSeq(modes, 1, Len(modes) - 1)), modes[Len(modes)])

\* The output mode nearest to m, the first of them if several are as near.
NearestOutputMode(out, m) ==
  CHOOSE k \in 1 .. Len(out) :
    \A j \in 1 .. Len(out) :
      \/ Abs(out[k].mu - m.mu) < Abs(out[j].mu - m.mu)
      \/ Abs(out[k].mu - m.mu) = Abs(out[j].mu - m.mu) /\ k <= j

\* The merge of m into the output mode a: the mean weighted by sample count.
MergedMode(a, m) == Mode((a.n * a.mu + m.n * m.mu) \div (a.n + m.n), a.n + m.n)

\* Step 3 for one candidate mode: merge, append or discard.
MergeCandidateMode(out, m, maxClusterCount) ==
  IF out # << >> /\ Abs(out[NearestOutputMode(out, m)].mu - m.mu) <= MergeRadius
  THEN [out EXCEPT ![NearestOutputMode(out, m)] = MergedMode(@, m)]
  ELSE IF Len(out) < maxClusterCount THEN Append(out, m)
       ELSE out

\* Steps 2 and 3: the output list after the first k candidates.
RECURSIVE GreedyClusters(_, _, _)
GreedyClusters(cands, k, maxClusterCount) ==
  IF k = 0 THEN << >>
  ELSE MergeCandidateMode(GreedyClusters(cands, k - 1, maxClusterCount), cands[k],
                          maxClusterCount)

\* merge_predictions_for_keypoint: the merged prediction of one keypoint.
merge_predictions_for_keypoint(leaves, maxClusterCount) ==
  LET cands == SortByCount(GatherLeafModes(leaves, NbTrees))
  IN  GreedyClusters(cands, Len(cands), maxClusterCount)

\* As MergerMaxClusterCount, room for every mode of every leaf.
MergerMaxClusterCount_Uncapped == NbTrees * MaxModesPerLeaf

\* The cap handed to merge_predictions_for_keypoint: m_maxClusterCount.
MergerMaxClusterCount == MaxClusterCount

\* merge_predictions_for_keypoints, up to the loop.
MergeLaunch ==
  /\ phase = "PREDICT"
  /\ hostPc = "start"
  /\ keypointsImage' = scene.keypoints
  /\ mergeThreads' = [i \in Pixels |-> "start"]
  /\ hostPc' = "merge_loop"
  /\ UNCHANGED << phase, frame, rounds, cancelFlag, result, settings, scene, predictionsImage,
                  leafPredictions, randomGenerators, candidateVars, inlierVars, energyBlocks,
                  history,
                  otherVars >>

\* One iteration of the parallel loop: the prediction of keypoint i is written.
MergeKeypoint(i) ==
  /\ hostPc = "merge_loop"
  /\ mergeThreads[i] = "start"
  /\ predictionsImage' = [predictionsImage EXCEPT ![i] =
       merge_predictions_for_keypoint(leafPredictions[i], MergerMaxClusterCount)]
  /\ mergeThreads' = [mergeThreads EXCEPT ![i] = "done"]
  /\ UNCHANGED << driverVars, keypointsImage, leafPredictions, randomGenerators,
                  candidateVars, inlierVars, energyBlocks, history,
                  otherVars >>

\* merge_predictions_for_keypoints, once every iteration is over.
MergeFinish ==
  /\ hostPc = "merge_loop"
  /\ \A i \in Pixels : mergeThreads[i] = "done"
  /\ hostPc' = "done"
  /\ UNCHANGED << phase, frame, rounds, cancelFlag, result, settings, scene, imageVars,
                  randomGenerators, candidateVars, inlierVars, energyBlocks, history,
                  otherVars >>

\* ---------------------------------------------------------------- driver

NoResult == [status |-> "none", pose |-> 0]
EmptyHistory ==
  [writers |-> [i \in Slots |-> 0],
   unmaskedAccepted |-> << >>,
   maskedAccepted |-> << >>,
   refineFailed |-> {},
   minAfterHalving |-> << >>,
   emitted |-> << >>]

\* The images a frame can bring: every keypoint valid but at most one, each
\* with one of its predictions.
KeypointImages ==
  { [i \in Pixels |-> i # bad] : bad \in Pixels \cup { -1 } }
PredictionImages ==
  { f \in [Pixels -> UNION { PredictionChoices(i) : i \in Pixels }] :
      \A i \in Pixels : f[i] \in PredictionChoices(i) }

\* ceil(n / 2)
HalvedSize_Floor(n) == n \div 2

HalvedSize(n) == (n + 1) \div 2

\* The least energy among the first n candidates (n >= 1).
MinEnergy(cands, n) ==
  LET idx == 0 .. (n - 1)
      i == CHOOSE a \in idx : \A b \in idx : ~EnergyLess(cands[b].energy, cands[a].energy)
  IN  cands[i].energy

\* As AtBoundary, the flag polled within a dispatch as well.
AtBoundary_Anytime == phase # "EMIT"

\* A state boundary at which the cancellation flag is polled.
AtBoundary == hostPc = "done" /\ phase # "EMIT"

Emit(status, pose) ==
  /\ phase' = "EMIT"
  /\ hostPc' = "done"
  /\ result' = [status |-> status, pose |-> pose]
  /\ UNCHANGED << frame, rounds, cancelFlag, settings, scene, imageVars, randomGenerators,
                  candidateVars, inlierVars, energyBlocks, history,
                  otherVars >>

Enter(next) ==
  /\ phase' = next
  /\ hostPc' = "start"
  /\ UNCHANGED << frame, rounds, cancelFlag, result, settings, scene, imageVars,
                  randomGenerators, candidateVars, energyBlocks, history,
                  otherVars >>

\* IDLE -> PREDICT
BeginPredict ==
  /\ AtBoundary /\ ~cancelFlag /\ phase = "IDLE"
  /\ Enter("PREDICT")
  /\ UNCHANGED inlierVars

\* PREDICT: the frame's keypoints and merged predictions.
Predict ==
  /\ phase = "PREDICT"
  /\ hostPc = "start"
  /\ keypointsImage' = scene.keypoints
  /\ predictionsImage' = scene.predictions
  /\ hostPc' = "done"
  /\ UNCHANGED << phase, frame, rounds, cancelFlag, result, settings, scene, randomGenerators,
                  leafPredictions, mergeThreads, candidateVars, inlierVars, energyBlocks,
                  history,
                  otherVars >>

\* PREDICT -> GENERATE: the per-frame inlier list and mask start empty.
BeginGenerate ==
  /\ AtBoundary /\ ~cancelFlag /\ phase = "PREDICT"
  /\ Enter("GENERATE")
  /\ inliersDataSize' = 0
  /\ inliersMaskImage' = [i \in Pixels |-> 0]
  /\ UNCHANGED << inliersIndicesBlock, nbSampledInliers_device, sampleThreads >>

\* The loop's test: while |candidates| > 1, within the budget of rounds.
LoopHead == AtBoundary /\ ~cancelFlag /\ phase \in { "GENERATE", "REFINE" }

\* As BudgetLeft, the budget never spent.
BudgetLeft_Unbounded == TRUE

\* The frame budget: the number of halving rounds is bounded by maxRounds.
BudgetLeft == rounds < settings.maxRounds

BeginRound ==
  /\ LoopHead
  /\ poseCandidatesDataSize > 1
  /\ BudgetLeft
  /\ Enter("SCORE")
  /\ UNCHANGED inlierVars

EmitPose ==
  /\ LoopHead
  /\ poseCandidatesDataSize = 1
  /\ Emit("OK", poseCandidates[0].pose)

EmitEmptyCandidatePool ==
  /\ LoopHead
  /\ poseCandidatesDataSize = 0
  /\ Emit("EmptyCandidatePool", 0)

EmitTimeout ==
  /\ LoopHead
  /\ poseCandidatesDataSize > 1
  /\ ~BudgetLeft
  /\ Emit("Timeout", 0)

EmitCancelled ==
  /\ AtBoundary /\ cancelFlag
  /\ Emit("Cancelled", 0)

\* As PhaseAfterScore, the halving left out.
PhaseAfterScore_Refine == "REFINE"

\* The state that follows SCORE.
PhaseAfterScore == "HALVE"

\* SCORE -> HALVE
BeginHalve ==
  /\ AtBoundary /\ ~cancelFlag /\ phase = "SCORE"
  /\ Enter(PhaseAfterScore)
  /\ UNCHANGED inlierVars

\* HALVE: candidates <- first ceil(|candidates| / 2)
Halve ==
  /\ phase = "HALVE"
  /\ hostPc = "start"
  /\ poseCandidatesDataSize' = HalvedSize(poseCandidatesDataSize)
  /\ rounds' = rounds + 1
  /\ hostPc' = "done"
  /\ history' = [history EXCEPT !.minAfterHalving =
       Append(@, MinEnergy(poseCandidates, HalvedSize(poseCandidatesDataSize)))]
  /\ UNCHANGED << phase, frame, cancelFlag, result, settings, scene, imageVars, randomGenerators,
                  poseCandidates, nbPoseCandidates_device, genThreads, inlierVars,
                  energyBlocks,
                  otherVars >>

\* HALVE -> REFINE
BeginRefine ==
  /\ AtBoundary /\ ~cancelFlag /\ phase = "HALVE"
  /\ Enter("REFINE")
  /\ UNCHANGED inlierVars

\* The caller asks for cancellation.
RequestCancel ==
  /\ ~cancelFlag
  /\ phase # "EMIT"
  /\ cancelFlag' = TRUE
  /\ UNCHANGED << phase, hostPc, frame, rounds, result, settings, scene, imageVars,
                  randomGenerators, candidateVars, inlierVars, energyBlocks, history,
                  otherVars >>

\* The next frame on the same relocaliser.
NextFrame ==
  /\ phase = "EMIT"
  /\ frame < MaxFrames
  /\ phase' = "IDLE"
  /\ hostPc' = "done"
  /\ frame' = frame + 1
  /\ rounds' = 0
  /\ cancelFlag' = FALSE
  /\ result' = NoResult
  /\ history' = [EmptyHistory EXCEPT !.emitted = Append(history.emitted, result)]
  /\ UNCHANGED << settings, scene, imageVars, randomGenerators, candidateVars, inlierVars,
                  energyBlocks,
                  otherVars >>

\* ------------------------------------------------- rafl::DecisionTree
\* An online decision tree: add_examples() drops labelled examples into the
\* reservoirs of the leaves, train() splits the most splittable leaves.  An
\* example is its label and the leaf its descriptor leads to; a reservoir is
\* the number of examples it has seen and the histogram of those it holds.

TreeLabels == 0 .. 1
TreeNodeIds == 0 .. (MaxTreeNodes - 1)
SeenThresholds == 0 .. MaxSeenExamplesThreshold
SplitBudgets == 0 .. MaxSplitBudget

EmptyReservoir == [seen |-> 0, hist |-> [l \in TreeLabels |-> 0]]

\* Node::Node: a leaf with an empty reservoir.
NewNode == [leftChildIndex |-> -1, rightChildIndex |-> -1, reservoir |-> EmptyReservoir]

ReservoirSize(r) == r.hist[0] + r.hist[1]

\* ExampleUtil::calculate_entropy on a histogram of two labels, on a scale of
\* integers: 0 for an empty or a pure histogram, 2 for a balanced one.
calculate_entropy(hist) ==
  IF hist[0] = 0 \/ hist[1] = 0 THEN 0
  ELSE IF hist[0] = hist[1] THEN 2 ELSE 1

SplittabilityThresholds == 0 .. 2

\* The reservoirs ExampleReservoir::add_example can leave behind, each with
\* whether the reservoir changed: room left stores the example; a full
\* reservoir either drops it or lets it take the place of a stored one.
ReservoirAddOutcomes(r, label, maxSize) ==
  IF ReservoirSize(r) < maxSize
    THEN { [reservoir |-> [seen |-> r.seen + 1,
                           hist |-> [r.hist EXCEPT ![label] = @ + 1]],
            changed |-> TRUE] }
    ELSE { [reservoir |-> [r EXCEPT !.seen = @ + 1], changed |-> FALSE] }
         \cup
         { [reservoir |-> [seen |-> r.seen + 1,
                           hist |-> [l \in TreeLabels |->
                                       r.hist[l] + (IF l = label THEN 1 ELSE 0)
                                                 - (IF l = old THEN 1 ELSE 0)]],
            changed |-> TRUE] : old \in { l \in TreeLabels : r.hist[l] > 0 } }

\* is_leaf
is_leaf(nodes, nodeIndex) == nodes[nodeIndex + 1].leftChildIndex = -1

Leaves(nodes) == { i \in 0 .. (Len(nodes) - 1) : is_leaf(nodes, i) }

\* PriorityQueue::insert and PriorityQueue::pop on the map from ids to keys.
QueueInsert(q, id, key) == [i \in (DOMAIN q) \cup {id} |-> IF i = id THEN key ELSE q[i]]

QueueRemove(q, id) == [i \in (DOMAIN q) \ {id} |-> q[i]]

\* PriorityQueue::update_key
QueueUpdateKey(q, id, key) == IF id \in DOMAIN q THEN [q EXCEPT ![id] = key] ELSE q

\* The elements PriorityQueue::top can return: those with the greatest key.
QueueTops(q) == { i \in DOMAIN q : \A j \in DOMAIN q : q[j] <= q[i] }

\* The splittability update_splittability computes for a reservoir.
Splittability(r, threshold) ==
  IF r.seen >= threshold THEN calculate_entropy(r.hist) ELSE 0

\* update_splittability: the queue after the update of one node.
update_splittability(q, nodes, nodeIndex, threshold) ==
  QueueUpdateKey(q, nodeIndex, Splittability(nodes[nodeIndex + 1].reservoir, threshold))

RECURSIVE UpdateSplittabilities(_, _, _, _)
UpdateSplittabilities(q, nodes, dirty, threshold) ==
  IF dirty = {} THEN q
  ELSE LET n == CHOOSE i \in dirty : TRUE
       IN  UpdateSplittabilities(update_splittability(q, nodes, n, threshold),
                                 nodes, dirty \ {n}, threshold)

\* As KeyReachesThreshold, with no threshold at all.
KeyReachesThreshold_Always(key, splittabilityThreshold) == TRUE

\* train's test of the best element: e.key() >= splittabilityThreshold.
KeyReachesThreshold(key, splittabilityThreshold) == key >= splittabilityThreshold

\* As TrainLoopRuns, with no budget.
TrainLoopRuns_NoBudget(q, nodesSplit, splitBudget) == DOMAIN q # {}

\* train's loop condition.
TrainLoopRuns(q, nodesSplit, splitBudget) ==
  DOMAIN q # {} /\ nodesSplit < splitBudget

\* The splits split_examples can propose for a reservoir: the examples it
\* holds divided between a left and a right side.
SplitsOf(r) ==
  { [left |-> [l \in TreeLabels |-> lh[l]],
     right |-> [l \in TreeLabels |-> r.hist[l] - lh[l]]] :
      lh \in { h \in [TreeLabels -> 0 .. MaxReservoirSize] :
                 \A l \in TreeLabels : h[l] <= r.hist[l] } }

\* The reservoirs fill_reservoir can produce from one side of a split: every
\* label is sampled size * multiplier times, the multiplier being at least 1
\* and the parent having seen parentSeen examples in all; the reservoir keeps
\* what fits.
FilledReservoirs(side, parentSeen, maxSize) ==
  LET size == side[0] + side[1]
      Hists(n) == { g \in [TreeLabels -> 0 .. maxSize] :
                      /\ g[0] + g[1] = (IF n < maxSize THEN n ELSE maxSize)
                      /\ \A l \in TreeLabels : side[l] = 0 => g[l] = 0
                      /\ \A l \in TreeLabels : side[l] > 0 /\ n <= maxSize => g[l] > 0 }
  IN  IF size = 0 THEN { EmptyReservoir }
      ELSE UNION { { [seen |-> n, hist |-> h] : h \in Hists(n) } :
                     n \in size .. (IF parentSeen > size THEN parentSeen ELSE size) }

EmptyTreeCall ==
  [pc |-> "idle", remaining |-> 0, added |-> 0,
   splitBudget |-> 0, splittabilityThreshold |-> 0, nodesSplit |-> 0,
   elementsToReAdd |-> {}, split |-> {}]

\* DecisionTree::DecisionTree.  The initialiser list names m_maxReservoirSize
\* and leaves m_seenExamplesThreshold out: the member holds whatever the
\* memory held (garbage), the argument is dropped.
ConstructTree(maxReservoirSize, seenExamplesThreshold, garbage) ==
  /\ treeArgs = [maxReservoirSize |-> maxReservoirSize,
                 seenExamplesThreshold |-> seenExamplesThreshold]
  /\ m_seenExamplesThreshold = garbage
  /\ m_nodes = << NewNode >>
  /\ m_splittabilityQueue = QueueInsert(<< >>, 0, 0)
  /\ m_dirtyNodes = {}
  /\ treeCall = EmptyTreeCall

\* add_examples, up to its first loop: n examples are on their way.
AddExamplesBegin(n) ==
  /\ treeCall.pc = "idle"
  /\ treeCall.added + n <= MaxExamplesAdded
  /\ treeCall' = [treeCall EXCEPT !.pc = "add_examples", !.remaining = n,
                                  !.added = @ + n]
  /\ UNCHANGED << treeArgs, m_nodes, m_splittabilityQueue, m_dirtyNodes,
                  m_seenExamplesThreshold, relocVars, clientVars, depthCall, rngCall >>

\* add_example: the example goes to the leaf its descriptor leads to; the
\* leaf is dirty if its reservoir changed.
add_example(leafIndex, label) ==
  /\ treeCall.pc = "add_examples"
  /\ treeCall.remaining > 0
  /\ leafIndex \in Leaves(m_nodes)
  /\ \E o \in ReservoirAddOutcomes(m_nodes[leafIndex + 1].reservoir, label,
                                   treeArgs.maxReservoirSize) :
       /\ m_nodes' = [m_nodes EXCEPT ![leafIndex + 1].reservoir = o.reservoir]
       /\ m_dirtyNodes' = IF o.changed THEN m_dirtyNodes \cup {leafIndex}
                          ELSE m_dirtyNodes
  /\ treeCall' = [treeCall EXCEPT !.remaining = @ - 1]
  /\ UNCHANGED << treeArgs, m_splittabilityQueue, m_seenExamplesThreshold, relocVars, clientVars, depthCall, rngCall >>

\* add_examples, after its first loop: the dirty nodes get their new
\* splittability and the dirty set is cleared.
AddExamplesEnd ==
  /\ treeCall.pc = "add_examples"
  /\ treeCall.remaining = 0
  /\ m_splittabilityQueue' = UpdateSplittabilities(m_splittabilityQueue, m_nodes,
                                                   m_dirtyNodes, m_seenExamplesThreshold)
  /\ m_dirtyNodes' = {}
  /\ treeCall' = [treeCall EXCEPT !.pc = "idle"]
  /\ UNCHANGED << treeArgs, m_nodes, m_seenExamplesThreshold, relocVars, clientVars, depthCall, rngCall >>

\* train, up to its loop.
TrainBegin(splitBudget, splittabilityThreshold) ==
  /\ treeCall.pc = "idle"
  /\ treeCall' = [treeCall EXCEPT !.pc = "train",
                                  !.splitBudget = splitBudget,
                                  !.splittabilityThreshold = splittabilityThreshold,
                                  !.nodesSplit = 0,
                                  !.elementsToReAdd = {},
                                  !.split = {}]
  /\ UNCHANGED << treeArgs, m_nodes, m_splittabilityQueue, m_dirtyNodes,
                  m_seenExamplesThreshold, relocVars, clientVars, depthCall, rngCall >>

add_node_First(size) == 0

\* add_node: the id of the node pushed at the back of a vector of that size.
add_node(size) == size

\* find_leaf: the indices the loop can return from curIndex, whatever
\* classify_descriptor answers at each node, or -2 if it is still at an
\* inner node after fuel turns.
RECURSIVE find_leaf(_, _, _)
find_leaf(nodes, curIndex, fuel) ==
  IF curIndex \notin 0 .. Len(nodes) - 1 THEN { -3 }
  ELSE IF is_leaf(nodes, curIndex) THEN { curIndex }
  ELSE IF fuel = 0 THEN { -2 }
  ELSE find_leaf(nodes, nodes[curIndex + 1].leftChildIndex, fuel - 1)
       \cup find_leaf(nodes, nodes[curIndex + 1].rightChildIndex, fuel - 1)

\* split_node, when split_examples found a split: two children are added,
\* their reservoirs filled and their splittability updated, and the
\* reservoir of the node is cleared.
SplitNodeTo(nodeIndex, leftReservoir, rightReservoir) ==
  LET leftChildIndex == add_node(Len(m_nodes))
      rightChildIndex == add_node(Len(m_nodes) + 1)
      nodes == [m_nodes EXCEPT ![nodeIndex + 1] =
                  [leftChildIndex |-> leftChildIndex,
                   rightChildIndex |-> rightChildIndex,
                   reservoir |-> EmptyReservoir]]
               \o << [NewNode EXCEPT !.reservoir = leftReservoir],
                     [NewNode EXCEPT !.reservoir = rightReservoir] >>
      added == QueueInsert(QueueInsert(QueueRemove(m_splittabilityQueue, nodeIndex),
                                       leftChildIndex, 0), rightChildIndex, 0)
  IN  /\ m_nodes' = nodes
      /\ m_splittabilityQueue' =
           update_splittability(
             update_splittability(added, nodes, leftChildIndex, m_seenExamplesThreshold),
             nodes, rightChildIndex, m_seenExamplesThreshold)

\* One turn of train's loop with a best element that reaches the threshold:
\* it is popped and split_node either splits it or fails, in which case the
\* element is kept for re-adding.
TrainStep(id) ==
  /\ treeCall.pc = "train"
  /\ TrainLoopRuns(m_splittabilityQueue, treeCall.nodesSplit, treeCall.splitBudget)
  /\ id \in QueueTops(m_splittabilityQueue)
  /\ KeyReachesThreshold(m_splittabilityQueue[id], treeCall.splittabilityThreshold)
  /\ LET e == [id |-> id, key |-> m_splittabilityQueue[id]]
         r == m_nodes[id + 1].reservoir
     IN  \/ /\ Len(m_nodes) + 2 <= MaxTreeNodes
            /\ \E s \in SplitsOf(r) :
                 \E lr \in FilledReservoirs(s.left, r.seen, treeArgs.maxReservoirSize),
                    rr \in FilledReservoirs(s.right, r.seen, treeArgs.maxReservoirSize) :
                   SplitNodeTo(id, lr, rr)
            /\ treeCall' = [treeCall EXCEPT
                              !.nodesSplit = @ + 1,
                              !.split = @ \cup { [id |-> id, key |-> e.key, seen |-> r.seen] }]
         \/ /\ m_splittabilityQueue' = QueueRemove(m_splittabilityQueue, id)
            /\ treeCall' = [treeCall EXCEPT !.elementsToReAdd = @ \cup {e}]
            /\ UNCHANGED m_nodes
  /\ UNCHANGED << treeArgs, m_dirtyNodes, m_seenExamplesThreshold, relocVars, clientVars, depthCall, rngCall >>

ReAddedKey_Zero(e) == 0

\* The key an element is re-inserted with: it->key().
ReAddedKey(e) == e.key

RECURSIVE ReAdd(_, _)
ReAdd(q, elements) ==
  IF elements = {} THEN q
  ELSE LET e == CHOOSE x \in elements : TRUE
       IN  ReAdd(QueueInsert(q, e.id, ReAddedKey(e)), elements \ {e})

\* The end of train: the loop is over (the queue is empty, the budget is
\* spent or the best element is below the threshold), the elements that
\* could not be split are re-added and the locals of the call are gone.
TrainEnd ==
  /\ treeCall.pc = "train"
  /\ \/ ~TrainLoopRuns(m_splittabilityQueue, treeCall.nodesSplit, treeCall.splitBudget)
     \/ \E id \in QueueTops(m_splittabilityQueue) :
          ~KeyReachesThreshold(m_splittabilityQueue[id], treeCall.splittabilityThreshold)
  /\ m_splittabilityQueue' = ReAdd(m_splittabilityQueue, treeCall.elementsToReAdd)
  /\ treeCall' = [EmptyTreeCall EXCEPT !.added = treeCall.added]
  /\ UNCHANGED << treeArgs, m_nodes, m_dirtyNodes, m_seenExamplesThreshold, relocVars, clientVars, depthCall, rngCall >>

\* The tree of the specifications that are not about it: constructed, at rest.
InitTreeAtRest == ConstructTree(MaxReservoirSize, 0, 0)

\* ------------------------------------------------- itmx::MappingClient
\* The client of a remote mapping server: a caller thread sends the
\* calibration, updates the rendering request, asks for the remote image and
\* pushes frames; the message sender thread started by the calibration sends
\* the frames.  Every read and write of the stream can succeed or fail.

\* The reads and writes of an interaction in the order of the source; checked
\* says whether the caller tests the result.
StreamOp(op, msg, checked) == [op |-> op, msg |-> msg, checked |-> checked]

Script(fn) ==
  CASE fn = "send_calibration_message" ->
         << StreamOp("write", "calibration", TRUE), StreamOp("read", "ack", TRUE) >>
    [] fn = "update_rendering_request" ->
         << StreamOp("write", "interactionType", TRUE),
            StreamOp("write", "renderingRequest", TRUE),
            StreamOp("read", "ack", TRUE) >>
    [] fn = "run_message_sender" ->
         << StreamOp("write", "interactionType", TRUE),
            StreamOp("write", "frameHeader", TRUE),
            StreamOp("write", "frame", TRUE),
            StreamOp("read", "ack", TRUE) >>
    [] fn = "get_remote_image" ->
         << StreamOp("write", "interactionType", TRUE),
            StreamOp("read", "flag", TRUE),
            StreamOp("write", "ack", TRUE),
            StreamOp("write", "interactionType", TRUE),
            StreamOp("read", "frameHeader", TRUE),
            StreamOp("read", "frame", TRUE),
            StreamOp("write", "ack", FALSE) >>

ClientFunctions ==
  { "send_calibration_message", "update_rendering_request", "get_remote_image" }

LocksInteractionMutex_Never(fn) == FALSE

\* The functions that lock m_interactionMutex around their exchange.
LocksInteractionMutex(fn) == fn # "send_calibration_message"

\* As StepAborts, with every step carried out whatever the one before did.
StepAborts_Never(ok, checked) == FALSE

\* The early-out of the && chains and nested ifs: a tested read or write that
\* failed ends the exchange.
StepAborts(ok, checked) == ~ok /\ checked

\* As CalibrationThrows, with no throw.
CalibrationThrows_Never(connectionOk) == FALSE

\* send_calibration_message: if(!connectionOk) throw.
CalibrationThrows(connectionOk) == ~connectionOk

IdleCall(n) ==
  [fn |-> "none", pc |-> "idle", at |-> 1, steps |-> << >>, flag |-> FALSE,
   ret |-> "none", calls |-> n]

\* The sender thread before its start.  frame is the message it peeked (the
\* n-th pushed), sent the messages written and acknowledged, popped the
\* messages removed from the queue, in order.
SenderNotStarted ==
  [pc |-> "notStarted", at |-> 1, steps |-> << >>, connectionOk |-> TRUE,
   frame |-> 0, sent |-> << >>, popped |-> << >>]

\* A caller thread outside the client's functions.
IdleObserver ==
  [fn |-> "none", pc |-> "idle", at |-> 1, steps |-> << >>, flag |-> FALSE,
   ret |-> "none", early |-> FALSE]

\* MappingClient::MappingClient, the connection made.
ConstructClient ==
  /\ m_interactionMutex = "free"
  /\ m_frameMessageQueue = [initialised |-> FALSE, size |-> 0, pushed |-> 0]
  /\ m_frameCompressor = FALSE
  /\ m_remoteImage = FALSE
  /\ callerCall = IdleCall(0)
  /\ senderCall = SenderNotStarted
  /\ observerCall = IdleObserver

\* The process has not died of a null dereference.
ProcessAlive == observerCall.pc # "crashed"

\* The caller enters one of the public functions.  The calibration is sent
\* until it has been acknowledged, the interactions follow it.
CallerBegin(fn) ==
  /\ ProcessAlive
  /\ callerCall.pc = "idle"
  /\ callerCall.calls < MaxClientCalls
  /\ (fn = "send_calibration_message") <=> (senderCall.pc = "notStarted")
  /\ callerCall' = [IdleCall(callerCall.calls + 1) EXCEPT
                      !.fn = fn,
                      !.pc = IF LocksInteractionMutex(fn) THEN "lock" ELSE "run"]
  /\ UNCHANGED << m_interactionMutex, m_frameMessageQueue, m_frameCompressor,
                  m_remoteImage, senderCall, relocVars, treeVars, depthCall, rngCall, observerCall >>

\* boost::lock_guard on m_interactionMutex, in the caller.
CallerLock ==
  /\ ProcessAlive
  /\ callerCall.pc = "lock"
  /\ m_interactionMutex = "free"
  /\ m_interactionMutex' = "caller"
  /\ callerCall' = [callerCall EXCEPT !.pc = "run"]
  /\ UNCHANGED << m_frameMessageQueue, m_frameCompressor, m_remoteImage,
                  senderCall, relocVars, treeVars, depthCall, rngCall, observerCall >>

\* One read or write of the caller's function, and with the last of them the
\* rest of the function: get_remote_image returns the remote image or a blank
\* one, send_calibration_message throws or initialises the queue, sets the
\* compressor and starts the sender, and the lock is released.
CallerStep(ok, flagValue) ==
  /\ ProcessAlive
  /\ callerCall.pc = "run"
  /\ LET fn == callerCall.fn
         e == Script(fn)[callerCall.at]
         steps == Append(callerCall.steps, [op |-> e.op, msg |-> e.msg, ok |-> ok])
         flag == IF e.msg = "flag" THEN ok /\ flagValue ELSE callerCall.flag
         failed == StepAborts(ok, e.checked)
         refused == fn = "get_remote_image" /\ callerCall.at = 3 /\ ~flag
         last == callerCall.at = Len(Script(fn))
         over == failed \/ refused \/ last
         thrown == fn = "send_calibration_message" /\ CalibrationThrows(~failed)
         ret == CASE fn = "get_remote_image" ->
                       IF failed \/ refused THEN "blank" ELSE "image"
                  [] fn = "send_calibration_message" ->
                       IF thrown THEN "throw" ELSE "void"
                  [] OTHER -> "void"
     IN  /\ callerCall' = [callerCall EXCEPT
                             !.steps = steps,
                             !.flag = flag,
                             !.at = IF over THEN @ ELSE @ + 1,
                             !.pc = IF over THEN "done" ELSE "run",
                             !.ret = IF over THEN ret ELSE "none"]
         /\ m_interactionMutex' =
              IF over /\ LocksInteractionMutex(fn) THEN "free" ELSE m_interactionMutex
         /\ m_remoteImage' = (m_remoteImage \/ (over /\ ret = "image"))
         /\ IF over /\ fn = "send_calibration_message" /\ ~thrown
              THEN /\ m_frameMessageQueue' = [m_frameMessageQueue EXCEPT
                                                !.initialised = TRUE, !.size = 0]
                   /\ m_frameCompressor' = TRUE
                   /\ senderCall' = [senderCall EXCEPT !.pc = "peek"]
              ELSE UNCHANGED << m_frameMessageQueue, m_frameCompressor, senderCall >>
  /\ UNCHANGED << relocVars, treeVars, depthCall, rngCall, observerCall >>

\* The caller is back from the function.
CallerReturn ==
  /\ ProcessAlive
  /\ callerCall.pc = "done"
  /\ callerCall' = IdleCall(callerCall.calls)
  /\ UNCHANGED << m_interactionMutex, m_frameMessageQueue, m_frameCompressor,
                  m_remoteImage, senderCall, relocVars, treeVars, depthCall, rngCall, observerCall >>

\* The functions a second caller thread (the renderer) calls.
ObserverFunctions == { "update_rendering_request", "get_remote_image" }

UncompressDereferencesNull_Never(fn, compressorSet) == FALSE

\* m_frameCompressor->uncompress_rgbd_frame at the end of get_remote_image
\* dereferences the compressor, which is null until send_calibration_message
\* has set it.
UncompressDereferencesNull(fn, compressorSet) ==
  fn = "get_remote_image" /\ ~compressorSet

\* A second thread enters update_rendering_request or get_remote_image once
\* send_calibration_message has returned.
ObserverBegin(fn) ==
  /\ ProcessAlive
  /\ observerCall.pc = "idle"
  /\ senderCall.pc # "notStarted"
  /\ observerCall' = [IdleObserver EXCEPT !.fn = fn, !.pc = "lock"]
  /\ UNCHANGED << m_interactionMutex, m_frameMessageQueue, m_frameCompressor,
                  m_remoteImage, callerCall, senderCall, relocVars, treeVars, depthCall, rngCall >>

\* A second thread enters one of them before send_calibration_message has
\* returned: nothing in the client forbids the call.
ObserverBeginEarly(fn) ==
  /\ ProcessAlive
  /\ observerCall.pc = "idle"
  /\ senderCall.pc = "notStarted"
  /\ observerCall' = [IdleObserver EXCEPT !.fn = fn, !.pc = "lock", !.early = TRUE]
  /\ UNCHANGED << m_interactionMutex, m_frameMessageQueue, m_frameCompressor,
                  m_remoteImage, callerCall, senderCall, relocVars, treeVars, depthCall, rngCall >>

\* boost::lock_guard on m_interactionMutex, in the second thread.
ObserverLock ==
  /\ ProcessAlive
  /\ observerCall.pc = "lock"
  /\ m_interactionMutex = "free"
  /\ m_interactionMutex' = "observer"
  /\ observerCall' = [observerCall EXCEPT !.pc = "run"]
  /\ UNCHANGED << m_frameMessageQueue, m_frameCompressor, m_remoteImage,
                  callerCall, senderCall, relocVars, treeVars, depthCall, rngCall >>

\* One read or write of the second thread's function, and with the last of
\* them the rest of the function.  A get_remote_image that received the
\* whole frame while the compressor is null dereferences a null pointer: the
\* process dies there, the lock never released.
ObserverStep(ok, flagValue) ==
  /\ ProcessAlive
  /\ observerCall.pc = "run"
  /\ LET fn == observerCall.fn
         e == Script(fn)[observerCall.at]
         steps == Append(observerCall.steps, [op |-> e.op, msg |-> e.msg, ok |-> ok])
         flag == IF e.msg = "flag" THEN ok /\ flagValue ELSE observerCall.flag
         failed == StepAborts(ok, e.checked)
         refused == fn = "get_remote_image" /\ observerCall.at = 3 /\ ~flag
         last == observerCall.at = Len(Script(fn))
         over == failed \/ refused \/ last
         crashed == /\ last /\ ~failed
                    /\ UncompressDereferencesNull(fn, m_frameCompressor)
         ret == CASE crashed -> "crash"
                  [] fn = "get_remote_image" /\ ~crashed ->
                       IF failed \/ refused THEN "blank" ELSE "image"
                  [] OTHER -> "void"
     IN  /\ observerCall' = [observerCall EXCEPT
                               !.steps = steps,
                               !.flag = flag,
                               !.at = IF over THEN @ ELSE @ + 1,
                               !.pc = CASE crashed -> "crashed"
                                        [] over /\ ~crashed -> "done"
                                        [] OTHER -> "run",
                               !.ret = IF over THEN ret ELSE "none"]
         /\ m_interactionMutex' =
              IF over /\ ~crashed THEN "free" ELSE m_interactionMutex
         /\ m_remoteImage' = (m_remoteImage \/ (over /\ ret = "image"))
  /\ UNCHANGED << m_frameMessageQueue, m_frameCompressor, callerCall, senderCall,
                  relocVars, treeVars, depthCall, rngCall >>

\* The second thread is back from the function.
ObserverReturn ==
  /\ ProcessAlive
  /\ observerCall.pc = "done"
  /\ observerCall' = IdleObserver
  /\ UNCHANGED << m_interactionMutex, m_frameMessageQueue, m_frameCompressor,
                  m_remoteImage, callerCall, senderCall, relocVars, treeVars, depthCall, rngCall >>

\* begin_push_frame_message and the push it leads to: a frame message enters
\* the queue of capacity 1.
PushFrameMessage ==
  /\ ProcessAlive
  /\ callerCall.pc = "idle"
  /\ m_frameMessageQueue.initialised
  /\ m_frameMessageQueue.size = 0
  /\ m_frameMessageQueue.pushed < MaxFramesPushed
  /\ m_frameMessageQueue' = [m_frameMessageQueue EXCEPT !.size = 1, !.pushed = @ + 1]
  /\ UNCHANGED << m_interactionMutex, m_frameCompressor, m_remoteImage,
                  callerCall, senderCall, relocVars, treeVars, depthCall, rngCall, observerCall >>

\* run_message_sender: peek (blocks until a message is there) and compress.
SenderPeek ==
  /\ ProcessAlive
  /\ senderCall.pc = "peek"
  /\ m_frameMessageQueue.size > 0
  /\ senderCall' = [senderCall EXCEPT !.pc = "lock", !.at = 1, !.steps = << >>,
                                      !.frame = m_frameMessageQueue.pushed]
  /\ UNCHANGED << m_interactionMutex, m_frameMessageQueue, m_frameCompressor,
                  m_remoteImage, callerCall, relocVars, treeVars, depthCall, rngCall, observerCall >>

\* boost::lock_guard on m_interactionMutex, in the sender.
SenderLock ==
  /\ ProcessAlive
  /\ senderCall.pc = "lock"
  /\ m_interactionMutex = "free"
  /\ m_interactionMutex' = "sender"
  /\ senderCall' = [senderCall EXCEPT !.pc = "run"]
  /\ UNCHANGED << m_frameMessageQueue, m_frameCompressor, m_remoteImage,
                  callerCall, relocVars, treeVars, depthCall, rngCall, observerCall >>

\* One read or write of the sender's chain; with the last one connectionOk is
\* set and the lock released.
SenderStep(ok) ==
  /\ ProcessAlive
  /\ senderCall.pc = "run"
  /\ LET e == Script("run_message_sender")[senderCall.at]
         steps == Append(senderCall.steps, [op |-> e.op, msg |-> e.msg, ok |-> ok])
         failed == StepAborts(ok, e.checked)
         over == failed \/ senderCall.at = Len(Script("run_message_sender"))
     IN  /\ senderCall' = [senderCall EXCEPT
                             !.steps = steps,
                             !.at = IF over THEN @ ELSE @ + 1,
                             !.pc = IF over THEN "pop" ELSE "run",
                             !.connectionOk = IF over THEN ok ELSE @,
                             !.sent = IF over /\ ok THEN Append(@, senderCall.frame)
                                      ELSE @]
         /\ m_interactionMutex' = IF over THEN "free" ELSE m_interactionMutex
  /\ UNCHANGED << m_frameMessageQueue, m_frameCompressor, m_remoteImage,
                  callerCall, relocVars, treeVars, depthCall, rngCall, observerCall >>

QueueAfterPop_Keep(queue) == queue

\* m_frameMessageQueue.pop(): the first message leaves the queue.
QueueAfterPop(queue) == [queue EXCEPT !.size = 0]

LoopContinues_Always(connectionOk) == TRUE

\* while(connectionOk) in run_message_sender.
LoopContinues(connectionOk) == connectionOk

\* The message that was sent is popped; the loop goes on while connectionOk.
SenderPop ==
  /\ ProcessAlive
  /\ senderCall.pc = "pop"
  /\ m_frameMessageQueue' = QueueAfterPop(m_frameMessageQueue)
  /\ senderCall' = [senderCall EXCEPT
                      !.pc = IF LoopContinues(senderCall.connectionOk)
                              THEN "peek" ELSE "exited",
                      !.popped = Append(@, senderCall.frame)]
  /\ UNCHANGED << m_interactionMutex, m_frameCompressor, m_remoteImage,
                  callerCall, relocVars, treeVars, depthCall, rngCall, observerCall >>

\* ------------------------------------------- spaint::DepthCalculator_CUDA
\* The sides of the images rendered.
MaxImageWidth == 3
MaxImageHeight == 2
\* cudaBlockSize (8 x 8 in render_depth): the side of a block.
DepthBlockSide == 2
\* The values of a raycast point and of an uninitialised one: 0 is a point
\* with w <= 0 (no surface), the others are surface points.
MaxPointValue == 2

PointValues == 0 .. MaxPointValue

ImageSizes == [x : 1 .. MaxImageWidth, y : 1 .. MaxImageHeight]

\* (int)ceil((float)a / (float)b)
CeilDiv(a, b) == (a + b - 1) \div b

\* gridSize of render_depth.
DepthGridSize(imgSize) ==
  [x |-> CeilDiv(imgSize.x, DepthBlockSide), y |-> CeilDiv(imgSize.y, DepthBlockSide)]

\* The (x, y) of the threads of the dispatch.
DepthThreads(imgSize) ==
  (0 .. DepthGridSize(imgSize).x * DepthBlockSide - 1)
    \X (0 .. DepthGridSize(imgSize).y * DepthBlockSide - 1)

\* The raycast result of the render state: the point at each raster index.
RaycastResult(imgSize) ==
  [locId \in 0 .. imgSize.x * imgSize.y - 1 |-> (locId + 1) % (MaxPointValue + 1)]

\* shade_pixel_depth: the depth of a surface point, -1 where there is none.
shade_pixel_depth(ptRay) == IF ptRay > 0 THEN ptRay ELSE -1

\* if(x >= imgSize.x || y >= imgSize.y) return;
DepthThreadReturnsEarly(x, y, imgSize) == x >= imgSize.x \/ y >= imgSize.y

IdleDepthThread == [pc |-> "ready", reads |-> {}, writes |-> {}, ptRay |-> 0]

\* A DepthCalculator_CUDA and the images it is called with, no call made.
DepthAtRest(imgSize) ==
  depthCall = [pc |-> "idle",
               imgSize |-> imgSize,
               ptsRay |-> RaycastResult(imgSize),
               outRendering |-> [locId \in 0 .. imgSize.x * imgSize.y - 1 |-> "unset"],
               shaded |-> [locId \in 0 .. imgSize.x * imgSize.y - 1 |-> 0],
               threads |-> << >>]

\* The renderer of the specifications that are not about it.
InitDepthAtRest == DepthAtRest([x |-> 1, y |-> 1])

\* render_depth up to the launch of ck_render_depth.
RenderDepthLaunch ==
  /\ depthCall.pc = "idle"
  /\ depthCall' = [depthCall EXCEPT
                     !.pc = "kernel",
                     !.threads = [t \in DepthThreads(depthCall.imgSize) |-> IdleDepthThread]]
  /\ UNCHANGED << relocVars, treeVars, clientVars, rngCall >>

\* One thread of ck_render_depth.  "Vector4f ptRay = ptRay[locId]" reads the
\* local it declares, not the parameter ptsRay: the point shaded is whatever
\* the uninitialised local holds, and no element of ptsRay is read.
ck_render_depth(x, y, uninitialised) ==
  /\ depthCall.pc = "kernel"
  /\ << x, y >> \in DOMAIN depthCall.threads
  /\ depthCall.threads[<< x, y >>].pc = "ready"
  /\ IF DepthThreadReturnsEarly(x, y, depthCall.imgSize)
       THEN depthCall' = [depthCall EXCEPT !.threads[<< x, y >>].pc = "done"]
       ELSE LET locId == y * depthCall.imgSize.x + x
                ptRay == uninitialised
            IN  depthCall' = [depthCall EXCEPT
                                !.threads[<< x, y >>] =
                                   [pc |-> "done", reads |-> {}, writes |-> {locId},
                                    ptRay |-> ptRay],
                                !.outRendering[locId] = shade_pixel_depth(ptRay),
                                !.shaded[locId] = @ + 1]
  /\ UNCHANGED << relocVars, treeVars, clientVars, rngCall >>

\* The kernel is over: every thread has run.
RenderDepthFinish ==
  /\ depthCall.pc = "kernel"
  /\ \A t \in DOMAIN depthCall.threads : depthCall.threads[t].pc = "done"
  /\ depthCall' = [depthCall EXCEPT !.pc = "done"]
  /\ UNCHANGED << relocVars, treeVars, clientVars, rngCall >>

\* ------------------------------- the generator states of a configuration
\* The greatest m_nbMaxPoseCandidates and m_batchSizeRansac configured.
MaxGeneratorStates == 3
MaxBatchSize == 4
\* The block size of the three dispatches (256, 32, 128): threads come in
\* whole blocks.
GeneratorBlockSize == 2

Configurations ==
  [nbMaxPoseCandidates : 1 .. MaxGeneratorStates, batchSizeRansac : 1 .. MaxBatchSize]

\* The thread indices of a grid of (n + blockSize - 1) / blockSize blocks.
GridThreads(n) ==
  0 .. ((n + GeneratorBlockSize - 1) \div GeneratorBlockSize) * GeneratorBlockSize - 1

SampleThreadReturnsEarly_Never(sampleIdx, nbMaxSamples) == FALSE

\* if (sampleIdx >= nbMaxSamples) return;
SampleThreadReturnsEarly(sampleIdx, nbMaxSamples) == sampleIdx >= nbMaxSamples

\* PreemptiveRansac_CUDA(): m_nbMaxPoseCandidates generator states are
\* allocated and init_random is launched.
ConstructGenerators(cfg) ==
  rngCall = [nbMaxPoseCandidates |-> cfg.nbMaxPoseCandidates,
             batchSizeRansac |-> cfg.batchSizeRansac,
             allocated |-> cfg.nbMaxPoseCandidates,
             pc |-> "init_random",
             ran |-> {},
             initialised |-> {},
             usedByGenerate |-> {},
             usedBySample |-> {}]

\* The generators of the specifications that are not about them.
InitGeneratorsAtRest ==
  ConstructGenerators([nbMaxPoseCandidates |-> 1, batchSizeRansac |-> 1])

\* One thread of ck_preemptive_ransac_init_random_generators.
InitRandomThread(idx) ==
  /\ rngCall.pc = "init_random"
  /\ idx \in GridThreads(rngCall.nbMaxPoseCandidates) \ rngCall.ran
  /\ rngCall' = [rngCall EXCEPT
                   !.ran = @ \cup {idx},
                   !.initialised = IF idx >= rngCall.nbMaxPoseCandidates THEN @
                                   ELSE @ \cup {idx}]
  /\ UNCHANGED << relocVars, treeVars, clientVars, depthCall >>

\* One thread of ck_preemptive_ransac_generate_pose_candidates, as far as
\* its generator goes: randomGenerators[candidateIdx].
GenerateThreadUsesGenerator(candidateIdx) ==
  /\ rngCall.pc = "generate"
  /\ candidateIdx \in GridThreads(rngCall.nbMaxPoseCandidates) \ rngCall.ran
  /\ rngCall' = [rngCall EXCEPT
                   !.ran = @ \cup {candidateIdx},
                   !.usedByGenerate = IF candidateIdx >= rngCall.nbMaxPoseCandidates THEN @
                                      ELSE @ \cup {candidateIdx}]
  /\ UNCHANGED << relocVars, treeVars, clientVars, depthCall >>

\* One thread of ck_preemptive_ransac_sample_inliers, as far as its
\* generator goes: randomGenerators[sampleIdx], nbMaxSamples being
\* m_batchSizeRansac.
SampleThreadUsesGenerator(sampleIdx) ==
  /\ rngCall.pc = "sample"
  /\ sampleIdx \in GridThreads(rngCall.batchSizeRansac) \ rngCall.ran
  /\ rngCall' = [rngCall EXCEPT
                   !.ran = @ \cup {sampleIdx},
                   !.usedBySample =
                      IF SampleThreadReturnsEarly(sampleIdx, rngCall.batchSizeRansac) THEN @
                      ELSE @ \cup {sampleIdx}]
  /\ UNCHANGED << relocVars, treeVars, clientVars, depthCall >>

\* The dispatch under way is over and the next one is launched: init_random
\* in the constructor, then generate_pose_candidates, then
\* sample_inlier_candidates.
GeneratorDispatchEnds ==
  /\ rngCall.pc \in { "init_random", "generate", "sample" }
  /\ rngCall.ran = GridThreads(IF rngCall.pc = "sample" THEN rngCall.batchSizeRansac
                               ELSE rngCall.nbMaxPoseCandidates)
  /\ rngCall' = [rngCall EXCEPT
                   !.ran = {},
                   !.pc = CASE rngCall.pc = "init_random" -> "generate"
                            [] rngCall.pc = "generate" -> "sample"
                            [] OTHER -> "done"]
  /\ UNCHANGED << relocVars, treeVars, clientVars, depthCall >>

\* ------------------------------------------------------- specification

RngSeeds == DefaultRngSeed .. (DefaultRngSeed + MaxSeedOffset)

Settings ==
  [useAllModes : BOOLEAN, checkMinDistance : BOOLEAN, checkRigidTransform : BOOLEAN,
   rngSeed : RngSeeds, maxRounds : 0 .. DefaultMaxRounds]

\* The relocaliser as constructed (arenas allocated, generators reset), idle,
\* before a frame of scene sc whose keypoints fell in leaves carrying lp.
InitRelocaliser(cfg, sc, lp) ==
  /\ phase = "IDLE"
  /\ hostPc = "done"
  /\ frame = 1
  /\ rounds = 0
  /\ cancelFlag = FALSE
  /\ result = NoResult
  /\ settings = cfg
  /\ scene = sc
  /\ keypointsImage = [i \in Pixels |-> FALSE]
  /\ predictionsImage = [i \in Pixels |-> << >>]
  /\ leafPredictions = lp
  /\ mergeThreads = [i \in Pixels |-> "idle"]
  /\ randomGenerators = [i \in RngStates |-> RngReset(cfg.rngSeed, i)]
  /\ poseCandidates = [i \in Slots |-> EmptyCandidate]
  /\ poseCandidatesDataSize = 0
  /\ nbPoseCandidates_device = 0
  /\ genThreads = [t \in Slots |-> IdleGenThread]
  /\ inliersIndicesBlock = [i \in InlierSlots |-> 0]
  /\ inliersDataSize = 0
  /\ nbSampledInliers_device = 0
  /\ inliersMaskImage = [i \in Pixels |-> 0]
  /\ sampleThreads = [t \in SampleThreads |-> IdleSampleThread]
  /\ energyBlocks = [i \in Slots |-> IdleBlock]
  /\ history = EmptyHistory

\* The relocaliser after construction, next to the objects it does not touch.
InitState(cfg, sc, lp) ==
  /\ InitRelocaliser(cfg, sc, lp)
  /\ InitTreeAtRest
  /\ ConstructClient
  /\ InitDepthAtRest
  /\ InitGeneratorsAtRest

\* Leaves that merge to the predictions pr: the first tree's leaf carries the
\* keypoint's modes, the leaves of the other trees none.
LeavesOf(pr) == [i \in Pixels |-> [t \in Trees |-> IF t = 0 THEN pr[i] ELSE << >>]]

InitWith(cfg, sc) == InitState(cfg, sc, LeavesOf(sc.predictions))

Scenes == [keypoints : KeypointImages, predictions : PredictionImages]

\* The frames the whole loop is run on: the two geometric tests enabled
\* together or not at all; the first two pixels predicted with as many modes,
\* none, one or two, and the last pixel with none, one or two.
LoopSettings == { cfg \in Settings : cfg.checkMinDistance = cfg.checkRigidTransform }
LoopScenes ==
  { sc \in Scenes : Len(sc.predictions[0]) = Len(sc.predictions[1]) }

Init == \E cfg \in LoopSettings, sc \in LoopScenes : InitWith(cfg, sc)

\* The frames candidate generation is run on: every configuration without a
\* budget of rounds, and every scene.
GenerateSettings == { cfg \in Settings : cfg.maxRounds = 0 }
InitGenerate == \E cfg \in GenerateSettings, sc \in Scenes : InitWith(cfg, sc)

GenerateSteps ==
  \/ GenerateLaunch
  \/ \E t \in Slots : GenLocal(t)
  \/ \E t \in Slots : GenGrab(t)
  \/ \E t \in Slots : GenStore(t)
  \/ GenerateFinish

SampleSteps ==
  \/ \E t \in SampleThreads : SmpDraw(t)
  \/ \E t \in SampleThreads : SmpGrab(t)
  \/ \E t \in SampleThreads : SmpStore(t)

EnergySteps ==
  \/ EnergyReset
  \/ \E c \in Slots, w \in Warps : EnergyWarpAdd(c, w)
  \/ \E c \in Slots : EnergyFinalise(c)
  \/ SortCandidates

Next ==
  \/ BeginPredict
  \/ Predict
  \/ BeginGenerate
  \/ GenerateSteps
  \/ SampleFirstLaunch
  \/ SampleFirstFinish
  \/ SampleSteps
  \/ BeginRound
  \/ SampleRoundLaunch
  \/ SampleRoundFinish
  \/ EnergySteps
  \/ BeginHalve
  \/ Halve
  \/ BeginRefine
  \/ UpdateCandidatePoses
  \/ EmitPose
  \/ EmitEmptyCandidatePool
  \/ EmitTimeout

\* One frame of one relocaliser.
Spec == Init /\ [][Next]_vars

\* The frames of a relocaliser up to the loop: prediction, candidate generation,
\* the first sampling, and what is emitted without a round.
NextGenerate ==
  \/ BeginPredict
  \/ Predict
  \/ BeginGenerate
  \/ GenerateSteps
  \/ SampleFirstLaunch
  \/ SampleFirstFinish
  \/ SampleSteps
  \/ EmitPose
  \/ EmitEmptyCandidatePool
  \/ EmitTimeout
  \/ NextFrame

SpecGenerate == InitGenerate /\ [][NextGenerate]_vars

\* One frame with the default seed on a scene whose keypoints are all valid and
\* whose pixels have as many modes each, every enabled step of the host and of
\* the dispatched threads being taken in the end.
FairSettings == { cfg \in LoopSettings : cfg.rngSeed = DefaultRngSeed }
FairScenes ==
  { sc \in LoopScenes :
      /\ \A i \in Pixels : sc.keypoints[i]
      /\ \A i \in Pixels : Len(sc.predictions[i]) = Len(sc.predictions[0]) }
InitFair == \E cfg \in FairSettings, sc \in FairScenes : InitWith(cfg, sc)
FairSpec == InitFair /\ [][Next]_vars /\ WF_vars(Next)

\* One frame, with the default seed on a scene whose keypoints are all valid,
\* and a caller that may ask for cancellation at any time.
NextCancel == Next \/ RequestCancel \/ EmitCancelled

SpecCancel == InitFair /\ [][NextCancel]_vars

\* A single-threaded backend: the threads of a dispatch run one after the
\* other in index order, each to its end.
SerialGenerate ==
  \E t \in Slots :
    /\ \A u \in Slots : u < t => genThreads[u].pc = "done"
    /\ (GenLocal(t) \/ GenGrab(t) \/ GenStore(t))

SerialSample ==
  \E t \in SampleThreads :
    /\ \A u \in SampleThreads : u < t => sampleThreads[u].pc = "done"
    /\ (SmpDraw(t) \/ SmpGrab(t) \/ SmpStore(t))

\* The warps of a block add their sums in index order.
SerialEnergy ==
  \/ \E c \in Slots, w \in Warps :
       /\ \A v \in Warps : v < w => v \in energyBlocks[c].added
       /\ EnergyWarpAdd(c, w)
  \/ \E c \in Slots : EnergyFinalise(c)

\* The one order a sequential sort leaves: of the sorted orders, one that keeps
\* candidates of equal energy as they were, if there is any.
SerialSorted(cands, n) ==
  LET all == ThrustSort(cands, n)
      pos(slot) == CHOOSE i \in 0 .. (n - 1) : cands[i].slot = slot
      stable == { srt \in all :
                    \A i, j \in 0 .. (n - 1) :
                      (i < j /\ ~EnergyLess(srt[i].energy, srt[j].energy))
                        => pos(srt[i].slot) < pos(srt[j].slot) }
  IN  IF stable # {} THEN CHOOSE srt \in stable : TRUE ELSE CHOOSE srt \in all : TRUE

SerialSort ==
  /\ SortCandidates
  /\ poseCandidates' = SerialSorted(poseCandidates, poseCandidatesDataSize)

\* A refinement fails for want of inliers only.
SerialRefine ==
  /\ UpdateCandidatePoses
  /\ inliersDataSize > 0 => history'.refineFailed = {}

\* Successive frames of one relocaliser on the same inputs, on a
\* single-threaded backend.
NextSerial ==
  \/ BeginPredict
  \/ Predict
  \/ BeginGenerate
  \/ GenerateLaunch
  \/ SerialGenerate
  \/ GenerateFinish
  \/ SampleFirstLaunch
  \/ SampleFirstFinish
  \/ SerialSample
  \/ BeginRound
  \/ SampleRoundLaunch
  \/ SampleRoundFinish
  \/ EnergyReset
  \/ SerialEnergy
  \/ SerialSort
  \/ BeginHalve
  \/ Halve
  \/ BeginRefine
  \/ SerialRefine
  \/ EmitPose
  \/ EmitEmptyCandidatePool
  \/ EmitTimeout
  \/ NextFrame

SpecSerial == Init /\ [][NextSerial]_vars

\* The modes a leaf of the forest can carry, and its lists of them.
LeafModes == { Mode(mu, n) : mu \in { 2, 3, 5, 8 }, n \in 1 .. 2 }
LeafModeLists == UNION { [1 .. k -> LeafModes] : k \in 0 .. MaxModesPerLeaf }

\* The leaves the keypoints of a frame fall in: any leaves for the first
\* keypoint; the other keypoints share theirs, empty ones or ones of one mode.
LeafImages ==
  { [i \in Pixels |-> IF i = 0 THEN first ELSE rest] :
      first \in [Trees -> LeafModeLists],
      rest \in { [t \in Trees |-> << >>], [t \in Trees |-> << Mode(3, 2) >>] } }

\* The predictions the merger makes of the leaves lp.
MergedImage(lp) ==
  [i \in Pixels |-> merge_predictions_for_keypoint(lp[i], MergerMaxClusterCount)]

\* One frame predicted by the merger, with every mode of a prediction drawn,
\* no geometric test, no budget of rounds and a seed of the caller's, the
\* first keypoint valid or not.
MergeSettings ==
  { cfg \in GenerateSettings :
      /\ cfg.useAllModes /\ ~cfg.checkMinDistance /\ ~cfg.checkRigidTransform
      /\ cfg.rngSeed # DefaultRngSeed }
InitMerge ==
  \E cfg \in MergeSettings, kp \in { k \in KeypointImages : k[1] /\ k[2] }, lp \in LeafImages :
    InitState(cfg, [keypoints |-> kp, predictions |-> MergedImage(lp)], lp)

\* Prediction by the merger, in parallel over the keypoints, then candidate
\* generation and the first sampling on a single-threaded backend.
NextMerge ==
  \/ BeginPredict
  \/ MergeLaunch
  \/ \E i \in Pixels : MergeKeypoint(i)
  \/ MergeFinish
  \/ BeginGenerate
  \/ GenerateLaunch
  \/ SerialGenerate
  \/ GenerateFinish
  \/ SampleFirstLaunch
  \/ SampleFirstFinish
  \/ SerialSample
  \/ EmitPose
  \/ EmitEmptyCandidatePool
  \/ EmitTimeout

SpecMerge == InitMerge /\ [][NextMerge]_vars

\* A decision tree under any sequence of add_examples and train calls, the
\* relocaliser at rest.  The member the constructor leaves uninitialised
\* starts with any value.
RestSettings ==
  [useAllModes |-> FALSE, checkMinDistance |-> TRUE, checkRigidTransform |-> TRUE,
   rngSeed |-> DefaultRngSeed, maxRounds |-> DefaultMaxRounds]

\* The relocaliser as constructed, with no frame to work on.
RelocaliserAtRest ==
  InitRelocaliser(RestSettings,
                  [keypoints |-> [i \in Pixels |-> FALSE],
                   predictions |-> [i \in Pixels |-> << >>]],
                  [i \in Pixels |-> [t \in Trees |-> << >>]])

InitTree ==
  /\ RelocaliserAtRest
  /\ \E s \in SeenThresholds, garbage \in SeenThresholds :
       ConstructTree(MaxReservoirSize, s, garbage)
  /\ ConstructClient
  /\ InitDepthAtRest
  /\ InitGeneratorsAtRest

NextTree ==
  \/ \E n \in 1 .. MaxExamplesPerCall : AddExamplesBegin(n)
  \/ \E leafIndex \in TreeNodeIds, label \in TreeLabels : add_example(leafIndex, label)
  \/ AddExamplesEnd
  \/ \E b \in SplitBudgets, t \in SplittabilityThresholds : TrainBegin(b, t)
  \/ \E id \in TreeNodeIds : TrainStep(id)
  \/ TrainEnd

SpecTree == InitTree /\ [][NextTree]_vars

\* train is one call: once entered, its loop and its end run.
TreeFairness ==
  /\ WF_vars(\E id \in TreeNodeIds : TrainStep(id))
  /\ WF_vars(TrainEnd)

\* The trees of every content the member m_seenExamplesThreshold can have,
\* the constructor's argument, which it drops, being 0.
InitTreeFair ==
  /\ RelocaliserAtRest
  /\ \E garbage \in SeenThresholds : ConstructTree(MaxReservoirSize, 0, garbage)
  /\ ConstructClient
  /\ InitDepthAtRest
  /\ InitGeneratorsAtRest

SpecTreeFair == InitTreeFair /\ [][NextTree]_vars /\ TreeFairness

\* A mapping client from its construction on: the caller's calls, the
\* frames it pushes and the message sender thread, in any interleaving.
InitClient ==
  /\ RelocaliserAtRest /\ InitTreeAtRest /\ ConstructClient
  /\ InitDepthAtRest /\ InitGeneratorsAtRest

NextClient ==
  \/ \E fn \in ClientFunctions : CallerBegin(fn)
  \/ CallerLock
  \/ \E ok \in BOOLEAN, flagValue \in BOOLEAN : CallerStep(ok, flagValue)
  \/ CallerReturn
  \/ PushFrameMessage
  \/ SenderPeek
  \/ SenderLock
  \/ \E ok \in BOOLEAN : SenderStep(ok)
  \/ SenderPop

SpecClient == InitClient /\ [][NextClient]_vars

\* The second caller thread's steps.
ObserverNext ==
  \/ ObserverLock
  \/ \E ok, flagValue \in BOOLEAN : ObserverStep(ok, flagValue)
  \/ ObserverReturn

\* MappingClient with two caller threads and the sender, the second caller
\* free to call at any time.
NextClientThreads ==
  \/ \E fn \in ClientFunctions : CallerBegin(fn)
  \/ CallerLock
  \/ \E ok, flagValue \in BOOLEAN : CallerStep(ok, flagValue)
  \/ CallerReturn
  \/ PushFrameMessage
  \/ SenderPeek
  \/ SenderLock
  \/ \E ok \in BOOLEAN : SenderStep(ok)
  \/ SenderPop
  \/ \E fn \in ObserverFunctions : ObserverBegin(fn)
  \/ \E fn \in ObserverFunctions : ObserverBeginEarly(fn)
  \/ ObserverNext

\* DepthCalculator_CUDA::render_depth on an image of every size.
InitDepth ==
  /\ RelocaliserAtRest /\ InitTreeAtRest /\ ConstructClient /\ InitGeneratorsAtRest
  /\ \E imgSize \in ImageSizes : DepthAtRest(imgSize)

NextDepth ==
  \/ RenderDepthLaunch
  \/ \E x \in 0 .. MaxImageWidth + DepthBlockSide, y \in 0 .. MaxImageHeight + DepthBlockSide,
        uninitialised \in PointValues : ck_render_depth(x, y, uninitialised)
  \/ RenderDepthFinish

SpecDepth == InitDepth /\ [][NextDepth]_vars

\* The generator states under every configuration of M_max and B.
InitGenerators ==
  /\ RelocaliserAtRest /\ InitTreeAtRest /\ ConstructClient /\ InitDepthAtRest
  /\ \E cfg \in Configurations : ConstructGenerators(cfg)

NextGenerators ==
  \/ \E idx \in GridThreads(MaxGeneratorStates) : InitRandomThread(idx)
  \/ \E candidateIdx \in GridThreads(MaxGeneratorStates) :
       GenerateThreadUsesGenerator(candidateIdx)
  \/ \E sampleIdx \in GridThreads(MaxBatchSize) : SampleThreadUsesGenerator(sampleIdx)
  \/ GeneratorDispatchEnds

SpecGenerators == InitGenerators /\ [][NextGenerators]_vars

SpecClientThreads == InitClient /\ [][NextClientThreads]_vars

\* MappingClient used as intended: one thread sends the calibration and
\* pushes the frames, the second thread calls get_remote_image and
\* update_rendering_request, again and again, once the calibration has
\* returned.
NextClientFair ==
  \/ CallerBegin("send_calibration_message")
  \/ \E ok, flagValue \in BOOLEAN : CallerStep(ok, flagValue)
  \/ CallerReturn
  \/ PushFrameMessage
  \/ SenderPeek
  \/ SenderLock
  \/ \E ok \in BOOLEAN : SenderStep(ok)
  \/ SenderPop
  \/ \E fn \in ObserverFunctions : ObserverBegin(fn)
  \/ ObserverNext

\* Every thread that can take a step keeps being scheduled: a thread inside
\* a function goes on, and a thread waiting for the mutex takes it if it
\* stays free.  boost::mutex hands the lock to no waiter in particular, so
\* nothing stronger holds of the lock.
ClientFairness ==
  /\ WF_vars(\E ok, flagValue \in BOOLEAN : CallerStep(ok, flagValue))
  /\ WF_vars(\E ok, flagValue \in BOOLEAN : ObserverStep(ok, flagValue))
  /\ WF_vars(SenderPeek)
  /\ WF_vars(SenderLock)
  /\ WF_vars(\E ok \in BOOLEAN : SenderStep(ok))
  /\ WF_vars(SenderPop)

SpecClientFair == InitClient /\ [][NextClientFair]_vars /\ ClientFairness

\* ============================================================ properties

PoolIndices == { i \in Slots : i < poseCandidatesDataSize }
EnergyEq(a, b) == ~EnergyLess(a, b) /\ ~EnergyLess(b, a)
HalveStep == phase = "HALVE" /\ hostPc = "start" /\ hostPc' = "done"
SortStep == phase = "SCORE" /\ hostPc = "energy_kernel" /\ hostPc' = "done"
PositionOf(cands, slot) == CHOOSE i \in Slots : cands[i].slot = slot
NoDuplicates(seq) == \A a, b \in 1 .. Len(seq) : a # b => seq[a] # seq[b]

\* C1: the loop ends; every halving keeps the first ceil(n/2) candidates of the
\* pool as sorted by ascending energy; a pose is returned only when exactly one
\* candidate is left, and it is that candidate's; with the default budget of
\* rounds no pool of 1 .. M_max candidates is cut short.
C1_LoopHalvesToOne ==
  /\ [][HalveStep =>
          /\ poseCandidatesDataSize' = (poseCandidatesDataSize + 1) \div 2
          /\ poseCandidates' = poseCandidates
          /\ \A i, j \in PoolIndices :
               i < j => ~EnergyLess(poseCandidates[j].energy, poseCandidates[i].energy)]_vars
  /\ [](result.status = "OK" =>
          poseCandidatesDataSize = 1 /\ result.pose = poseCandidates[0].pose)
  /\ [](settings.maxRounds = DefaultMaxRounds => result.status # "Timeout")
  /\ <>(phase = "EMIT")

\* C1's case: a pool of M_max candidates halved twice, down to the one returned.
C1_Witness ==
  /\ result.status = "OK"
  /\ nbPoseCandidates_device = MaxNbPoseCandidates
  /\ rounds = 2

AllowedPhaseSteps ==
  { << "IDLE", "PREDICT" >>, << "PREDICT", "GENERATE" >>, << "GENERATE", "SCORE" >>,
    << "SCORE", "HALVE" >>, << "HALVE", "REFINE" >>, << "REFINE", "SCORE" >>,
    << "GENERATE", "EMIT" >>, << "REFINE", "EMIT" >> }

ValidGenThreads == { t \in Slots : genThreads[t].valid }
GenerationOver ==
  phase = "GENERATE" /\ hostPc \in { "sample_first", "smp_kernel_first", "done" }

\* C3: once generation is over the count is the number of slots that succeeded
\* in this frame, the candidates of those slots fill indices 0 .. count-1, each
\* written once, and nothing at or above count was written; no index is ever
\* written twice.
C3_DensePrefix ==
  /\ \A i \in Slots : history.writers[i] <= 1
  /\ GenerationOver =>
       /\ poseCandidatesDataSize = Cardinality(ValidGenThreads)
       /\ poseCandidatesDataSize <= MaxNbPoseCandidates
       /\ \A i \in Slots :
            IF i < poseCandidatesDataSize
            THEN /\ history.writers[i] = 1
                 /\ \E t \in ValidGenThreads :
                      /\ genThreads[t].finalIdx = i
                      /\ poseCandidates[i].slot = t
                      /\ poseCandidates[i].corr = genThreads[t].cand.corr
            ELSE history.writers[i] = 0
       /\ \A t, u \in ValidGenThreads :
            t # u => genThreads[t].finalIdx # genThreads[u].finalIdx

\* C3's case: the second frame of a relocaliser, a slot that failed below two
\* that succeeded, and the two stored against the order of their slots.
C3_Witness ==
  /\ GenerationOver
  /\ frame = 2
  /\ poseCandidatesDataSize = 2
  /\ ~genThreads[0].valid
  /\ poseCandidates[0].slot > poseCandidates[1].slot

C5_UnmaskedSetsMask ==
  /\ \A k \in 1 .. Len(history.unmaskedAccepted) :
       inliersMaskImage[history.unmaskedAccepted[k]] = 1
  /\ \A k \in 1 .. Len(history.maskedAccepted) :
       \A l \in 1 .. Len(history.unmaskedAccepted) :
         history.maskedAccepted[k] # history.unmaskedAccepted[l]

\* C6: the sort keeps candidates of equal energy in the order they had.
C6_SortStable ==
  [][SortStep =>
       \A i, j \in PoolIndices :
         (i < j /\ EnergyEq(poseCandidates'[i].energy, poseCandidates'[j].energy))
           => PositionOf(poseCandidates, poseCandidates'[i].slot)
                < PositionOf(poseCandidates, poseCandidates'[j].slot)]_vars

\* C7 as claimed: the least energy of the survivors after a halving is never
\* above the least energy of the survivors after the halving before it.
C7_MinNonIncreasingAcrossRounds ==
  \A r \in 1 .. (Len(history.minAfterHalving) - 1) :
    ~EnergyLess(history.minAfterHalving[r], history.minAfterHalving[r + 1])

\* C7 as amended: a halving never drops the least energy of its round; no
\* candidate scored in the round has less energy than the least of the survivors.
C7_HalvingKeepsRoundMinimum ==
  [][HalveStep =>
       \A i \in PoolIndices :
         ~EnergyLess(poseCandidates[i].energy,
                     MinEnergy(poseCandidates', poseCandidatesDataSize'))]_vars

\* C7's case: two halvings, the survivors of the second all above the least
\* energy left by the first.
C7_Witness ==
  /\ Len(history.minAfterHalving) = 2
  /\ EnergyLess(history.minAfterHalving[1], history.minAfterHalving[2])

\* C8: when the pool is ranked, a candidate whose last refinement failed has
\* the inflated energy it was given.
C8_InflatedEnergyRanks ==
  (phase = "SCORE" /\ hostPc = "done") =>
    \A i \in PoolIndices :
      poseCandidates[i].slot \in history.refineFailed
        => poseCandidates[i].energy = [num |-> InflatedEnergy, den |-> 1]

\* The sum of the costs of the inliers 0 .. n-1 under a pose, each taken once.
CostOfInliers(pose, n) ==
  SumTo([j \in 0 .. (n - 1) |-> InlierCost(pose, inliersIndicesBlock[j], predictionsImage)], n)

\* C9: with inliers, the energy of a candidate whose block is over is the sum
\* of the costs of the inliers, each once, over the number of inliers.
C9_EnergyIsMean ==
  (hostPc = "energy_kernel" /\ inliersDataSize > 0) =>
    \A c \in PoolIndices :
      energyBlocks[c].done =>
        poseCandidates[c].energy =
          [num |-> CostOfInliers(poseCandidates[c].pose, inliersDataSize),
           den |-> inliersDataSize]

\* C9's case: more inliers than threads in a block, so that a thread takes
\* two of them, and an energy that is not zero.
C9_Witness ==
  /\ hostPc = "energy_kernel"
  /\ inliersDataSize > ThreadsPerBlock
  /\ \E c \in PoolIndices : energyBlocks[c].done /\ poseCandidates[c].energy.num > 0

\* C10: every candidate written in this frame has three usable correspondences
\* that pass the tests that are enabled.
C10_StoredPassTests ==
  \A i \in Slots :
    history.writers[i] >= 1 =>
      TripleAccepted(keypointsImage, predictionsImage, settings, poseCandidates[i].corr)

\* C10's case: both tests enabled, a slot whose last triple of usable
\* correspondences was rejected by them, and a candidate stored by another.
C10_Witness ==
  /\ settings.checkMinDistance /\ settings.checkRigidTransform
  /\ \E t \in Slots : genThreads[t].pc = "done" /\ ~genThreads[t].valid
                        /\ Len(genThreads[t].cand.corr) = 3
  /\ \E i \in Slots : history.writers[i] = 1

\* What slot t generates in the first frame, from its own generator alone.
OwnResult(t) ==
  preemptive_ransac_generate_candidate(
    RngReset(settings.rngSeed, t), keypointsImage, predictionsImage, settings, 0, << >>)

GenThreadOver(t) == genThreads[t].pc \in { "generated", "grabbed", "done" }

\* C11: the generation kernel always ends; a slot makes at most its budget of
\* attempts; a slot that spends the budget stores nothing and grabs no index;
\* and what a slot generates is what its own generator gives, whatever the
\* other slots did.
C11_GenerationTerminates ==
  /\ [](\A t \in Slots :
          GenThreadOver(t) =>
            /\ OwnResult(t).iterations <= MaxCandidateGenerationIterations
            /\ genThreads[t].valid = OwnResult(t).valid
            /\ genThreads[t].cand.corr = OwnResult(t).corr
            /\ ~genThreads[t].valid =>
                 /\ genThreads[t].pc = "done"
                 /\ genThreads[t].finalIdx = -1
                 /\ \A i \in Slots : history.writers[i] >= 1 => poseCandidates[i].slot # t)
  /\ (hostPc = "gen_kernel") ~> (\A t \in Slots : genThreads[t].pc = "done")

\* C11's case: a slot that spent its whole budget without a candidate, next
\* to a slot whose candidate is stored.
C11_Witness ==
  /\ \E t \in Slots :
       /\ genThreads[t].pc = "done" /\ ~genThreads[t].valid
       /\ OwnResult(t).iterations = MaxCandidateGenerationIterations
  /\ \E i \in Slots : history.writers[i] = 1 /\ genThreads[poseCandidates[i].slot].valid

AllPredictionsEmpty == \A i \in Pixels : scene.predictions[i] = << >>
GenerationPublished ==
  phase \in { "SCORE", "HALVE", "REFINE", "EMIT" } \/ GenerationOver

\* C12: with every prediction empty no candidate is generated and the frame
\* ends with EmptyCandidatePool; whenever the pool is empty no pose is
\* returned and the frame ends with EmptyCandidatePool, and no scoring,
\* halving or refinement is ever run on an empty pool.
C12_EmptyPoolFails ==
  /\ (AllPredictionsEmpty /\ GenerationPublished) =>
       /\ nbPoseCandidates_device = 0
       /\ poseCandidatesDataSize = 0
  /\ (GenerationPublished /\ poseCandidatesDataSize = 0) =>
       /\ phase \in { "GENERATE", "EMIT" }
       /\ result.status # "OK"
       /\ phase = "EMIT" => result.status = "EmptyCandidatePool"
  /\ phase \in { "SCORE", "HALVE", "REFINE" } => poseCandidatesDataSize >= 1

\* C12's case: a frame whose predictions are all empty, ended.
C12_Witness ==
  /\ AllPredictionsEmpty
  /\ \E i \in Pixels : scene.keypoints[i]
  /\ phase = "EMIT"
  /\ result.status = "EmptyCandidatePool"

UsableKeypoints ==
  { i \in Pixels : keypointsImage[i] /\ Len(predictionsImage[i]) > 0 }

\* C13: with exactly two usable keypoints, valid and with a non-empty
\* prediction, no slot generates a candidate, none is stored, and the frame
\* ends with EmptyCandidatePool, whatever the settings.
C13_TwoUsableKeypointsNoCandidate ==
  (phase \in { "GENERATE", "EMIT" } /\ Cardinality(UsableKeypoints) = 2) =>
    /\ \A t \in Slots : ~genThreads[t].valid
    /\ nbPoseCandidates_device = 0
    /\ phase = "EMIT" => result.status = "EmptyCandidatePool"

RoundsWithinBudget ==
  /\ rounds <= settings.maxRounds
  /\ Len(history.minAfterHalving) = rounds
TimeoutOnlyWhenExhausted ==
  phase = "EMIT" =>
    (result.status = "Timeout" <=>
       (poseCandidatesDataSize > 1 /\ rounds = settings.maxRounds))

DispatchRunning == phase # "EMIT" /\ hostPc # "done"
ThreadsAtRest ==
  /\ \A t \in Slots : genThreads[t].pc \in { "idle", "done" }
  /\ \A t \in SampleThreads : sampleThreads[t].pc \in { "idle", "done" }
  /\ \A b \in Slots : energyBlocks[b].done
NothingDispatched ==
  /\ keypointsImage = [i \in Pixels |-> FALSE]
  /\ predictionsImage = [i \in Pixels |-> << >>]
  /\ poseCandidatesDataSize = 0
  /\ nbPoseCandidates_device = 0
  /\ inliersDataSize = 0
  /\ \A t \in Slots : genThreads[t].pc = "idle"
  /\ \A t \in SampleThreads : sampleThreads[t].pc = "idle"
  /\ rounds = 0
  /\ history = EmptyHistory

\* C15: the cancellation flag is acted on only at a boundary between states. A
\* step taken while a dispatch runs with the flag set is a step of that
\* dispatch, which can always go on: it leaves the state, the flag and the
\* result as they are. At a boundary with the flag set the only step is the
\* emission of Cancelled, and Cancelled is emitted in no other way. With the
\* flag set before the first dispatch Cancelled is emitted with nothing
\* dispatched.
C15_CancelOnlyAtBoundaries ==
  /\ [][/\ (cancelFlag /\ DispatchRunning) =>
             /\ phase' = phase
             /\ cancelFlag' = cancelFlag
             /\ result' = result
        /\ (cancelFlag /\ AtBoundary) =>
             /\ phase' = "EMIT"
             /\ result'.status = "Cancelled"
             /\ UNCHANGED << imageVars, randomGenerators, candidateVars, inlierVars,
                             energyBlocks, history, rounds >>
        /\ (result'.status = "Cancelled" /\ result.status # "Cancelled") =>
             /\ cancelFlag /\ AtBoundary /\ ThreadsAtRest
             /\ phase' = "EMIT"]_vars
  /\ []((cancelFlag /\ DispatchRunning) => ENABLED Next)
  /\ []((phase = "IDLE" /\ frame = 1) => NothingDispatched)

\* C15's cases: Cancelled emitted after a round's dispatches, and Cancelled
\* emitted with nothing dispatched.
C15_Witness ==
  /\ result.status = "Cancelled"
  /\ rounds >= 1
  /\ inliersDataSize > BatchSizeRansac
C15_WitnessBeforeFirstDispatch ==
  /\ result.status = "Cancelled"
  /\ NothingDispatched

\* The calls of the sampler made so far in the frame.
SamplingPasses ==
  CASE phase \in { "IDLE", "PREDICT" } -> 0
    [] phase = "GENERATE" ->
         IF hostPc \in { "smp_kernel_first", "done" } THEN 1 ELSE 0
    [] phase = "SCORE" -> IF hostPc = "start" THEN rounds + 1 ELSE rounds + 2
    [] phase = "HALVE" -> IF hostPc = "start" THEN rounds + 2 ELSE rounds + 1
    [] phase \in { "REFINE", "EMIT" } -> rounds + 1

C17_SuccessiveRunsIdentical ==
  (frame = 2 /\ phase = "EMIT") => result = history.emitted[1]

MergedKeypoints == { i \in Pixels : mergeThreads[i] = "done" }
CountOfModes(modes) == SumTo([k \in 0 .. (Len(modes) - 1) |-> modes[k + 1].n], Len(modes))

\* C18: whatever the leaves' mode lists, the merged prediction of a keypoint
\* holds at most K modes and each of them has a sample count of at least 1.
C18_AtMostKModes ==
  \A i \in MergedKeypoints :
    /\ Len(predictionsImage[i]) <= MaxClusterCount
    /\ \A k \in 1 .. Len(predictionsImage[i]) : predictionsImage[i][k].n >= 1

\* C18's case: a keypoint whose leaves carry more modes than K, one of them
\* merged into an output mode and one discarded.
C18_Witness ==
  \E i \in MergedKeypoints :
    /\ Len(GatherLeafModes(leafPredictions[i], NbTrees)) > MaxClusterCount
    /\ Len(predictionsImage[i]) = MaxClusterCount
    /\ CountOfModes(predictionsImage[i])
         < CountOfModes(GatherLeafModes(leafPredictions[i], NbTrees))
    /\ \E k \in 1 .. MaxClusterCount :
         \A m \in 1 .. Len(GatherLeafModes(leafPredictions[i], NbTrees)) :
           predictionsImage[i][k].n > GatherLeafModes(leafPredictions[i], NbTrees)[m].n

\* C19: the modes of every merged prediction are in the order of their sample
\* counts, the greatest first, also after candidate modes were merged into
\* output modes.
C19_MergedSortedByCount ==
  \A i \in MergedKeypoints :
    \A k \in 1 .. (Len(predictionsImage[i]) - 1) :
      predictionsImage[i][k].n >= predictionsImage[i][k + 1].n

AllLeavesEmpty(i) == \A t \in Trees : leafPredictions[i][t] = << >>

\* C20: the merged prediction of a keypoint has no mode exactly when none of
\* its T leaves has one; and a keypoint that is invalid or whose prediction is
\* empty is in no correspondence of a generator thread or of a stored
\* candidate, and is never appended to the inliers.
C20_UnusableKeypointsUnused ==
  /\ \A i \in MergedKeypoints : (predictionsImage[i] = << >>) <=> AllLeavesEmpty(i)
  /\ \A t \in Slots :
       \A k \in 1 .. Len(genThreads[t].cand.corr) :
         genThreads[t].cand.corr[k].pix \in UsableKeypoints
  /\ \A c \in Slots :
       history.writers[c] >= 1 =>
         \A k \in 1 .. 3 : poseCandidates[c].corr[k].pix \in UsableKeypoints
  /\ \A t \in SampleThreads :
       sampleThreads[t].pc \in { "sampled", "grabbed" } =>
         sampleThreads[t].idx \in UsableKeypoints
  /\ \A j \in InlierSlots :
       j < inliersDataSize => inliersIndicesBlock[j] \in UsableKeypoints

\* C20's case: a valid keypoint with empty leaves and an empty merged
\* prediction, drawn by a sampler thread and not appended, while a candidate
\* and an inlier of other keypoints were stored.
C20_Witness ==
  /\ \E i \in MergedKeypoints :
       /\ AllLeavesEmpty(i) /\ keypointsImage[i]
       /\ predictionsImage[i] = << >>
       /\ \E t \in SampleThreads :
            /\ sampleThreads[t].pc = "done"
            /\ sampleThreads[t].draw = i
            /\ sampleThreads[t].outIdx = -1
  /\ inliersDataSize >= 1
  /\ \E c \in Slots : history.writers[c] >= 1

\* C22: a single call of train splits at most splitBudget nodes, and every
\* node it splits had a splittability key of at least splittabilityThreshold
\* when it was taken from the queue.  (The locals of the call live until
\* the call returns; each split adds two nodes to the tree.)
C22_TrainWithinBudgetAndThreshold ==
  /\ treeCall.pc = "train" =>
       /\ treeCall.nodesSplit <= treeCall.splitBudget
       /\ Cardinality(treeCall.split) = treeCall.nodesSplit
       /\ \A e \in treeCall.split : e.key >= treeCall.splittabilityThreshold
       /\ \A e \in treeCall.split : ~is_leaf(m_nodes, e.id)
  /\ Len(m_nodes) = 1 + 2 * Cardinality({ i \in 0 .. (Len(m_nodes) - 1) : ~is_leaf(m_nodes, i) })

\* C22's case: a call with a positive threshold has spent its whole budget
\* of two splits while the queue still offers a node that reaches the
\* threshold.
C22_Witness ==
  /\ treeCall.pc = "train"
  /\ treeCall.splittabilityThreshold > 0
  /\ treeCall.splitBudget = 2
  /\ treeCall.nodesSplit = 2
  /\ \E id \in DOMAIN m_splittabilityQueue :
       m_splittabilityQueue[id] >= treeCall.splittabilityThreshold

\* C22's other case: the best node of the queue is below the threshold and
\* the call ends with budget left.
C22_WitnessBelowThreshold ==
  /\ treeCall.pc = "train"
  /\ treeCall.nodesSplit = 1
  /\ treeCall.splitBudget = 2
  /\ DOMAIN m_splittabilityQueue # {}
  /\ \A id \in DOMAIN m_splittabilityQueue :
       m_splittabilityQueue[id] < treeCall.splittabilityThreshold

\* C23: in a tree constructed with seenExamplesThreshold = s, between calls a
\* leaf whose reservoir has seen fewer than s examples has splittability 0,
\* and a call of train with a positive threshold splits no node that had
\* seen fewer than s examples.
C23_BelowSeenThresholdNeverSplit ==
  /\ treeCall.pc = "idle" =>
       \A i \in Leaves(m_nodes) :
         m_nodes[i + 1].reservoir.seen < treeArgs.seenExamplesThreshold =>
           i \in DOMAIN m_splittabilityQueue /\ m_splittabilityQueue[i] = 0
  /\ treeCall.pc = "train" /\ treeCall.splittabilityThreshold > 0 =>
       \A e \in treeCall.split : e.seen >= treeArgs.seenExamplesThreshold

\* What C23 says of a tree whose member happens to hold the argument.
TreeThresholdAsConstructed ==
  m_seenExamplesThreshold = treeArgs.seenExamplesThreshold =>
    C23_BelowSeenThresholdNeverSplit

\* The reads and writes a call has carried out so far are the first ones of
\* expected, in that order, and all but the last one succeeded.
StepsInOrder(steps, expected) ==
  /\ Len(steps) <= Len(expected)
  /\ \A k \in 1 .. Len(steps) :
       /\ << steps[k].op, steps[k].msg >> = expected[k]
       /\ k < Len(steps) => steps[k].ok

AllStepsOk(steps) == \A k \in 1 .. Len(steps) : steps[k].ok

\* C24: send_calibration_message throws unless the calibration message was
\* written and the acknowledgement read, and when it throws the frame
\* message queue is not initialised, the compressor is not set and the
\* message sender thread is not started; when it returns all three are done.
C24_CalibrationThrowsUnlessAcknowledged ==
  callerCall.fn = "send_calibration_message" /\ callerCall.pc = "done" =>
    LET steps == callerCall.steps
        acknowledged ==
          /\ Len(steps) = 2
          /\ steps[1] = [op |-> "write", msg |-> "calibration", ok |-> TRUE]
          /\ steps[2] = [op |-> "read", msg |-> "ack", ok |-> TRUE]
    IN  /\ callerCall.ret = (IF acknowledged THEN "void" ELSE "throw")
        /\ callerCall.ret = "throw" =>
             /\ ~m_frameMessageQueue.initialised
             /\ ~m_frameCompressor
             /\ senderCall.pc = "notStarted"
        /\ callerCall.ret = "void" =>
             /\ m_frameMessageQueue.initialised
             /\ m_frameCompressor
             /\ senderCall.pc # "notStarted"

\* C24's case: the calibration message was written, the read of the
\* acknowledgement failed and the function threw, after an earlier call that
\* threw as well.
C24_Witness ==
  /\ callerCall.fn = "send_calibration_message"
  /\ callerCall.pc = "done"
  /\ callerCall.calls = 2
  /\ Len(callerCall.steps) = 2
  /\ callerCall.steps[1].ok
  /\ ~callerCall.steps[2].ok
  /\ callerCall.ret = "throw"

\* C25: get_remote_image returns the remote image exactly when the server
\* reported a rendered image and all seven reads and writes of the exchange
\* succeeded, the two writes of the acknowledgement included, and a blank
\* image otherwise.
C25_BlankUnlessWholeExchangeSucceeded ==
  callerCall.fn = "get_remote_image" /\ callerCall.pc = "done" =>
    /\ callerCall.ret \in { "image", "blank" }
    /\ callerCall.ret = "image" <=>
         /\ Len(callerCall.steps) = 7
         /\ AllStepsOk(callerCall.steps)
         /\ callerCall.flag

\* What get_remote_image does return: the remote image exactly when the
\* first six reads and writes succeeded and the server reported a rendered
\* image, whatever the last write of the acknowledgement did.
RemoteImageUnlessCheckedStepFailed ==
  callerCall.fn = "get_remote_image" /\ callerCall.pc = "done" =>
    /\ callerCall.ret \in { "image", "blank" }
    /\ callerCall.ret = "image" <=>
         /\ Len(callerCall.steps) = 7
         /\ AllStepsOk(SubSeq(callerCall.steps, 1, 6))
         /\ callerCall.flag
    /\ callerCall.ret = "image" => m_remoteImage

\* C30: the message sender writes interaction type, frame header and frame
\* and then reads the acknowledgement; update_rendering_request writes
\* interaction type and rendering request and then reads the
\* acknowledgement; in both, nothing follows a read or write that failed,
\* the interaction ends only after a failure or its last step, and it is
\* carried out under m_interactionMutex.
C30_InteractionsInOrderWithEarlyOut ==
  /\ senderCall.pc \in { "run", "pop" } =>
       /\ StepsInOrder(senderCall.steps,
                       << << "write", "interactionType" >>, << "write", "frameHeader" >>,
                          << "write", "frame" >>, << "read", "ack" >> >>)
       /\ senderCall.pc = "run" => AllStepsOk(senderCall.steps) /\ Len(senderCall.steps) < 4
       /\ senderCall.pc = "pop" =>
            /\ Len(senderCall.steps) = 4 \/ ~AllStepsOk(senderCall.steps)
            /\ senderCall.connectionOk <=> AllStepsOk(senderCall.steps)
  /\ senderCall.pc = "run" <=> m_interactionMutex = "sender"
  /\ callerCall.fn = "update_rendering_request" /\ callerCall.pc \in { "run", "done" } =>
       /\ StepsInOrder(callerCall.steps,
                       << << "write", "interactionType" >>, << "write", "renderingRequest" >>,
                          << "read", "ack" >> >>)
       /\ callerCall.pc = "run" =>
            /\ AllStepsOk(callerCall.steps) /\ Len(callerCall.steps) < 3
            /\ m_interactionMutex = "caller"
       /\ callerCall.pc = "done" =>
            Len(callerCall.steps) = 3 \/ ~AllStepsOk(callerCall.steps)

\* C30's case: the write of the frame header failed and ended the sender's
\* interaction after two steps, while the caller waits for the lock to
\* update the rendering request.
C30_Witness ==
  /\ senderCall.pc = "pop"
  /\ Len(senderCall.steps) = 2
  /\ ~senderCall.steps[2].ok
  /\ callerCall.fn = "update_rendering_request"
  /\ callerCall.pc = "lock"

\* C30's other case: a whole update of the rendering request while the
\* sender waits for the lock, after a frame that was sent and acknowledged.
C30_WitnessWholeInteraction ==
  /\ callerCall.fn = "update_rendering_request"
  /\ callerCall.pc = "done"
  /\ Len(callerCall.steps) = 3
  /\ AllStepsOk(callerCall.steps)
  /\ senderCall.pc = "lock"
  /\ m_frameMessageQueue.pushed = 2

\* The sum of what the warps in added contribute to the energy of candidate c.
PartialSums(c, added) ==
  SumTo([w \in Warps |->
           IF w \in added
           THEN WarpContribution(poseCandidates[c], w, predictionsImage,
                                 inliersIndicesBlock, inliersDataSize)
           ELSE 0], WarpsPerBlock)

\* C26: in every scoring round and for every candidate below the candidate
\* count, the energy is what the partial sums added so far make of 0, not
\* yet divided, until the block is over, and the block is over (the division
\* done) only once every partial sum has been added.
C26_ResetAccumulateFinalise ==
  hostPc = "energy_kernel" =>
    \A c \in PoolIndices :
      /\ ~energyBlocks[c].done =>
           poseCandidates[c].energy =
             [num |-> PartialSums(c, energyBlocks[c].added), den |-> 1]
      /\ energyBlocks[c].done =>
           /\ energyBlocks[c].added = Warps
           /\ poseCandidates[c].energy =
                [num |-> PartialSums(c, Warps), den |-> inliersDataSize]

\* C26's case: in a round after the first, a candidate has the partial sum
\* of one warp, not zero and not yet divided, while another candidate's
\* division is done.
C26_Witness ==
  /\ hostPc = "energy_kernel"
  /\ rounds >= 1
  /\ \E c \in PoolIndices :
       /\ energyBlocks[c].added # {} /\ energyBlocks[c].added # Warps
       /\ poseCandidates[c].energy.num > 0
  /\ \E c \in PoolIndices : energyBlocks[c].done

\* a <= b on energies, as floats compare: a quotient by zero (no inlier) is
\* not a number and is neither below nor equal to anything.
EnergyLeq(a, b) == a.den > 0 /\ b.den > 0 /\ a.num * b.den <= b.num * a.den

\* The first n entries of after are those of before in some order, and the
\* entries from n on are untouched.
IsPermutation(before, after, n) ==
  /\ \A i \in Slots : i >= n => after[i] = before[i]
  /\ \E f \in [0 .. (n - 1) -> 0 .. (n - 1)] :
       /\ \A i, j \in 0 .. (n - 1) : i # j => f[i] # f[j]
       /\ \A i \in 0 .. (n - 1) : after[i] = before[f[i]]

\* A candidate without its energy.
Unscored(cand) == [cand EXCEPT !.energy = [num |-> 0, den |-> 1]]

\* The steps of compute_and_sort_energies before the sort leave every
\* candidate where it is and change nothing of it but the energy.
ScoringKeepsCandidates ==
  [][(phase = "SCORE" /\ phase' = "SCORE" /\ ~SortStep) =>
       \A i \in Slots : Unscored(poseCandidates'[i]) = Unscored(poseCandidates[i])]_vars

SortPermutes ==
  [][SortStep =>
       IsPermutation(poseCandidates, poseCandidates', poseCandidatesDataSize)]_vars

SampleCallEnds == InSampleKernel /\ hostPc' \notin { "smp_kernel_first", "smp_kernel_round" }
StoringThreads == { t \in SampleThreads : sampleThreads[t].outIdx >= 0 }

\* C28: a call of sample_inlier_candidates appends between 0 and B indices,
\* those its threads accepted, after the inliers that were there; while it
\* runs the candidate array is not touched; and within a frame, once its
\* first call is under way, the inlier list never shrinks and no stored
\* index changes.
C28_SamplingAppends ==
  /\ [][SampleCallEnds =>
          /\ inliersDataSize' >= inliersDataSize
          /\ inliersDataSize' <= inliersDataSize + BatchSizeRansac
          /\ inliersDataSize' = inliersDataSize + Cardinality(StoringThreads)
          /\ \A t \in StoringThreads :
               /\ sampleThreads[t].outIdx >= inliersDataSize
               /\ sampleThreads[t].outIdx < inliersDataSize'
               /\ inliersIndicesBlock'[sampleThreads[t].outIdx] = sampleThreads[t].idx
          /\ \A t, u \in StoringThreads :
               t # u => sampleThreads[t].outIdx # sampleThreads[u].outIdx]_vars
  /\ [][(InSampleKernel \/ hostPc' \in { "smp_kernel_first", "smp_kernel_round" }) =>
          UNCHANGED << poseCandidates, poseCandidatesDataSize, nbPoseCandidates_device >>]_vars
  /\ [][(frame' = frame /\ phase \notin { "IDLE", "PREDICT" }) =>
          /\ inliersDataSize' >= inliersDataSize
          /\ \A j \in InlierSlots :
               j < inliersDataSize => inliersIndicesBlock'[j] = inliersIndicesBlock[j]]_vars

\* C28's case: a masked call whose B threads all stored an index, after
\* inliers that an earlier call left.
C28_Witness ==
  /\ phase = "SCORE" /\ hostPc = "energy_reset"
  /\ StoringThreads = SampleThreads
  /\ inliersDataSize > BatchSizeRansac

\* C28's other case: a masked call that appended nothing to a list that was
\* not empty.
C28_WitnessNothingAppended ==
  /\ phase = "SCORE" /\ hostPc = "energy_reset"
  /\ StoringThreads = {}
  /\ inliersDataSize > 0

\* The step that begins a call of sample_inlier_candidates.
SampleCallBegins == ~InSampleKernel /\ hostPc' \in { "smp_kernel_first", "smp_kernel_round" }

\* C29: when a call of sample_inlier_candidates ends, the host-side count is
\* the device counter; the device counter goes down only at the start of a
\* call that finds the host-side count at 0, and then to 0, and a call that
\* finds another count leaves it; between calls a host-side count that is
\* not 0 equals the device counter.  Frame after frame.
C29_HostCountIsDeviceCounter ==
  /\ [][SampleCallEnds => inliersDataSize' = nbSampledInliers_device']_vars
  /\ [][SampleCallBegins =>
          nbSampledInliers_device' =
            (IF inliersDataSize = 0 THEN 0 ELSE nbSampledInliers_device)]_vars
  /\ [][nbSampledInliers_device' < nbSampledInliers_device =>
          SampleCallBegins /\ inliersDataSize = 0 /\ nbSampledInliers_device' = 0]_vars
  /\ []((~InSampleKernel /\ inliersDataSize > 0) =>
          inliersDataSize = nbSampledInliers_device)
  /\ []((InSampleKernel /\ \A t \in SampleThreads : sampleThreads[t].pc = "done") =>
          nbSampledInliers_device = inliersDataSize + Cardinality(StoringThreads))

\* C29's case: the first frame stored inliers, and the first call of the
\* second frame has reset the device counter, accepted no inlier and ended
\* with both counts at 0.
C29_Witness ==
  /\ frame = 2
  /\ phase = "GENERATE" /\ hostPc = "done"
  /\ inliersIndicesBlock[0] # 0
  /\ \A t \in SampleThreads : sampleThreads[t].pc = "done"
  /\ StoringThreads = {}
  /\ history.unmaskedAccepted = << >>
  /\ inliersDataSize = 0
  /\ nbSampledInliers_device = 0

\* C29's case within a frame: the first call accepted no inlier and the
\* masked call of the first round, which found the host-side count at 0 and
\* reset the device counter again, has ended with inliers.
C29_WitnessLateInliers ==
  /\ phase = "SCORE" /\ hostPc = "energy_reset"
  /\ history.unmaskedAccepted = << >>
  /\ inliersDataSize > 0
  /\ inliersDataSize = nbSampledInliers_device

\* C29's other case: the second frame begins its first call with the device
\* counter still at the count of the first frame.
C29_WitnessStaleCounter ==
  /\ frame = 2
  /\ phase = "GENERATE" /\ hostPc = "sample_first"
  /\ inliersDataSize = 0
  /\ nbSampledInliers_device > 0

\* --------------------------------------------------------------- C38
\* A thread is in the middle of an exchange: it has read or written on the
\* stream and its exchange is not over.
MidExchange(call) == call.pc = "run" /\ Len(call.steps) >= 1

CallerLocked ==
  callerCall.fn # "none" /\ callerCall.fn # "send_calibration_message"

C38_WitnessCallerFirst ==
  /\ callerCall.fn = "update_rendering_request"
  /\ callerCall.pc = "run" /\ callerCall.at = 3
  /\ senderCall.pc = "lock"

\* --------------------------------------------------------------- C39
\* The sender thread runs only with the queue initialised and the compressor
\* set, and holds no lock while it waits for a message.
SenderStartedAfterSetUp ==
  /\ senderCall.pc # "notStarted" =>
       m_frameMessageQueue.initialised /\ m_frameCompressor
  /\ senderCall.pc \in { "notStarted", "peek", "lock", "pop", "exited" } =>
       m_interactionMutex # "sender"

\* C39 as stated: the sender is started after the queue and the compressor
\* are set up, never holds the mutex while waiting on the queue, and no
\* get_remote_image uncompresses a frame with the compressor not yet set.
C39_InitialisedBeforeAnyUse ==
  /\ SenderStartedAfterSetUp
  /\ observerCall.pc # "crashed"
  /\ observerCall.ret = "image" => m_frameCompressor
  /\ callerCall.ret = "image" => m_frameCompressor

\* C39, amended: the sender is started after the queue and the compressor
\* are set up and never holds the mutex while waiting on the queue; a
\* get_remote_image that returns an image has uncompressed it with the
\* compressor set, and only a get_remote_image entered before
\* send_calibration_message has returned can reach the uncompress call with
\* a null compressor.
C39_InitialisedBeforeUseAfterCalibration ==
  /\ SenderStartedAfterSetUp
  /\ observerCall.pc = "crashed" => observerCall.early /\ ~m_frameCompressor
  /\ observerCall.ret = "image" => m_frameCompressor
  /\ callerCall.ret = "image" => m_frameCompressor

\* C39 witness: a get_remote_image entered before the calibration returned
\* has come back with an image, the compressor having been set in between,
\* while the sender waits on the empty queue.
C39_Witness ==
  /\ observerCall.early
  /\ observerCall.ret = "image"
  /\ senderCall.pc = "peek"
  /\ m_frameMessageQueue.size = 0

\* --------------------------------------------------------------- C31
StrictlyIncreasing(seq) ==
  \A i, j \in 1 .. Len(seq) : i < j => seq[i] < seq[j]

SeqRange(seq) == { seq[k] : k \in 1 .. Len(seq) }

\* Every frame message is transmitted at most once and in the order of the
\* pushes; what has been acknowledged is popped or about to be.
SentOnceInOrder ==
  /\ StrictlyIncreasing(senderCall.sent)
  /\ StrictlyIncreasing(senderCall.popped)
  /\ SeqRange(senderCall.sent) \subseteq
       SeqRange(senderCall.popped) \cup
         (IF senderCall.pc = "pop" THEN { senderCall.frame } ELSE {})

C31_WitnessBothSent ==
  /\ senderCall.sent = << 1, 2 >>
  /\ senderCall.popped = << 1, 2 >>

\* --------------------------------------------------------------- C32
FrameIds == 1 .. MaxFramesPushed

\* Frame n has been sent, acknowledged and popped.
FrameDelivered(n) ==
  n \in SeqRange(senderCall.sent) /\ n \in SeqRange(senderCall.popped)

\* Every pushed frame is in the end delivered, unless a send failed and the
\* sender loop stopped.
EveryPushedFrameDelivered ==
  \A n \in FrameIds :
    (m_frameMessageQueue.pushed >= n) ~>
      (FrameDelivered(n) \/ senderCall.pc = "exited")

\* The sender loop stops at the first failed send and sends nothing after.
SenderStopsAtFailure ==
  /\ [](senderCall.pc = "exited" =>
          ~senderCall.connectionOk /\ ~AllStepsOk(senderCall.steps))
  /\ [](~senderCall.connectionOk => senderCall.pc \in { "pop", "exited" })
  /\ [][senderCall.pc = "exited" => senderCall' = senderCall]_vars

\* The sender thread never waits for ever for the interaction mutex.
SenderGetsTheMutex == (senderCall.pc = "lock") ~> (senderCall.pc = "run")

NodeIndices == 0 .. Len(m_nodes) - 1

\* C33: every node has both child indices -1, or both valid and greater
\* than its own index; find_leaf from the root ends, for every descriptor,
\* at a node whose left child index is -1.
C33_ChildrenBelowAndFindLeafEnds ==
  /\ \A i \in NodeIndices :
       LET n == m_nodes[i + 1]
       IN  \/ n.leftChildIndex = -1 /\ n.rightChildIndex = -1
           \/ /\ n.leftChildIndex \in NodeIndices /\ n.leftChildIndex > i
              /\ n.rightChildIndex \in NodeIndices /\ n.rightChildIndex > i
  /\ \A leaf \in find_leaf(m_nodes, 0, Len(m_nodes)) :
       leaf \in NodeIndices /\ m_nodes[leaf + 1].leftChildIndex = -1
  /\ find_leaf(m_nodes, 0, Len(m_nodes)) = Leaves(m_nodes)

\* C33 witness: a tree of two splits, the second one of a child of the root,
\* to which an example has been added since.
C33_Witness ==
  /\ Len(m_nodes) = 5
  /\ ~is_leaf(m_nodes, 0)
  /\ \E i \in 1 .. 2 : ~is_leaf(m_nodes, i)
  /\ treeCall.pc = "add_examples" /\ treeCall.remaining = 0

\* --------------------------------------------------------------- C34
\* The nodes train has popped in the step under way.
AttemptedIds ==
  { e.id : e \in treeCall.elementsToReAdd } \cup { e.id : e \in treeCall.split }

\* C34: every call of train ends; a node whose split failed is out of the
\* queue for the rest of the step, no node is popped twice in a step, and at
\* the end of the step each failed node is back in the queue with the key it
\* was popped with.
C34_TrainTerminatesAndReAdds ==
  /\ (treeCall.pc = "train") ~> (treeCall.pc = "idle")
  /\ [](treeCall.pc = "train" =>
          \A e \in treeCall.elementsToReAdd : e.id \notin DOMAIN m_splittabilityQueue)
  /\ [][(treeCall.pc = "train" /\ treeCall'.pc = "train") =>
          \A id \in (DOMAIN m_splittabilityQueue) \ (DOMAIN m_splittabilityQueue') :
            id \notin AttemptedIds]_vars
  /\ [][(treeCall.pc = "train" /\ treeCall'.pc = "idle") =>
          \A e \in treeCall.elementsToReAdd :
            /\ e.id \in DOMAIN m_splittabilityQueue'
            /\ m_splittabilityQueue'[e.id] = e.key]_vars

\* C34 witness: in one step a node has been split and one of its children,
\* popped with a positive key, could not be split.
C34_Witness ==
  /\ treeCall.pc = "train"
  /\ \E e \in treeCall.elementsToReAdd : e.key > 0 /\ e.id > 0
  /\ treeCall.split # {}

\* --------------------------------------------------------------- C35
\* The dispatch has one thread for each pixel of the image; each of those
\* writes the output element of its own raster index and no other, once,
\* and the threads outside the image read and write nothing.
DepthDispatchCoversImage ==
  depthCall.pc = "done" =>
    /\ \A x \in 0 .. depthCall.imgSize.x - 1, y \in 0 .. depthCall.imgSize.y - 1 :
         /\ << x, y >> \in DOMAIN depthCall.threads
         /\ depthCall.threads[<< x, y >>].writes = { y * depthCall.imgSize.x + x }
         /\ depthCall.shaded[y * depthCall.imgSize.x + x] = 1
    /\ \A t \in DOMAIN depthCall.threads :
         DepthThreadReturnsEarly(t[1], t[2], depthCall.imgSize) =>
           depthCall.threads[t].reads = {} /\ depthCall.threads[t].writes = {}

\* C35: after render_depth every pixel (x, y) of the image has been shaded
\* exactly once, from the raycast point read at raster index y*W + x, into
\* output element y*W + x only; the threads outside the image read and write
\* nothing.
C35_EachPixelShadedFromItsRaycastPoint ==
  /\ DepthDispatchCoversImage
  /\ depthCall.pc = "done" =>
       \A x \in 0 .. depthCall.imgSize.x - 1, y \in 0 .. depthCall.imgSize.y - 1 :
         LET locId == y * depthCall.imgSize.x + x
         IN  /\ depthCall.threads[<< x, y >>].reads = { locId }
             /\ depthCall.threads[<< x, y >>].ptRay = depthCall.ptsRay[locId]
             /\ depthCall.outRendering[locId] = shade_pixel_depth(depthCall.ptsRay[locId])

\* --------------------------------------------------------------- C37
GeneratorIndicesUsed == rngCall.usedByGenerate \cup rngCall.usedBySample

AllocatedGenerators == 0 .. rngCall.allocated - 1

C37_WitnessPastTheEnd ==
  /\ rngCall.batchSizeRansac = 4 /\ rngCall.nbMaxPoseCandidates = 3
  /\ 3 \in rngCall.usedBySample

====
